---- MODULE Spec2Model ----
(***************************************************************************)
(* Verification model of the KiCad schematic parser                        *)
(* (src/data/data-ingest/schematic_ingest.py): the schematic model         *)
(* S-expression reader (SExprParser), the schematic model builder          *)
(* (_parse_schematic and the _parse_* helpers), the net synthesis          *)
(* (_build_nets) and the serializer (_to_dict), driven by parse_file and   *)
(* parse_schematic_with_paths.                                             *)
(*                                                                         *)
(* Coordinates.  Point.x and Point.y are floats in the source.  The model  *)
(* places every coordinate on a grid of 0.002 schematic units and keeps    *)
(* the coordinate as the integer number of grid units, so the tolerance    *)
(* 0.01 of _build_nets is 5 grid units and 10.0 is 5000 grid units.        *)
(* Distances are compared squared (sqrt is monotone), in exact arithmetic; *)
(* on the coordinates of the input nodes below the floating-point          *)
(* computation of the source gives the same comparisons.                   *)
(*                                                                         *)
(* Text.  Strings the code inspects character by character (label texts,   *)
(* net names) are sequences of one-character strings; strings it only      *)
(* compares or tests for emptiness are TLA+ strings.                       *)
(*                                                                         *)
(* Dictionaries.  A Python dict is a sequence of entries [k, v] in         *)
(* insertion order with pairwise distinct keys.                            *)
(*                                                                         *)
(* Files.  SpecFile starts from the text of a file, a sequence of          *)
(* one-character strings, reads it with the S-expression reader and turns  *)
(* the wire, junction and label items of the tree into the nodes the       *)
(* other specifications start from.  SpecCursor runs the same reader one   *)
(* loop iteration at a time, with the cursor and the stack of calls as     *)
(* state.                                                                  *)
(*                                                                         *)
(* Around the parser.  SpecDownload is URLDownloader                       *)
(* (src/data/data-ingest/url_downloader.py) with the calls of download_one *)
(* interleaved as the thread pool runs them.  SpecProcessor is the Lambda  *)
(* function that parses uploaded schematics                                *)
(* (src/infra/lambda-functions/schematics-json-encoding-handler) and       *)
(* SpecUpload the Lambda function that receives them                       *)
(* (src/infra/lambda-functions/upload-handler), each with the log of the   *)
(* calls it makes to S3, DynamoDB and SNS.                                 *)
(***************************************************************************)
EXTENDS Integers, Sequences, FiniteSets, TLC

VARIABLES
    parser,     \* the KiCadSchematicParser object parse_file is called on
    fresh,      \* a KiCadSchematicParser created for this call alone and fed the same file
    doc,        \* the top-level nodes of the file of the current call, per tag, in file order
    filename,   \* the path given to the current parse_file call
    pc,         \* position of the current parse_file call
    out,        \* the document the call returned (NoDoc until it returns)
    content,    \* the content of the file, a sequence of characters
    data,       \* what SExprParser(content).parse() did: the value returned or the error raised
    output_json, \* the output file of parse_schematic_with_paths (NoDoc until it is written)
    cursor,     \* SExprParser.pos while parse() runs step by step
    frames,     \* the calls of parse() under way, outermost first
    out_dir,    \* URLDownloader: the files of out_dir, by path
    futures,    \* URLDownloader.download_all: the download_one calls, in submission order
    max_workers, \* URLDownloader.max_workers
    event,      \* the event a lambda_handler is invoked with
    environ,    \* os.environ of the Lambda function
    lpc,        \* position of the lambda_handler invocation
    record_index, \* the record of event['Records'] the loop of lambda_handler is at (0 before the first)
    calls,      \* the calls made to S3, DynamoDB and SNS, in order, each with its outcome
    tmp_files,  \* the temporary files that exist
    stage1_result, \* process_schematic_message: what parse_schematic_with_paths returned
    response    \* what lambda_handler returned (None until it returns)

\* the variables of the text stage; the specifications that are given the
\* nodes of the file directly leave them alone
filevars == <<content, data, output_json>>

\* the variables of the schematic parser
parservars == <<parser, fresh, doc, filename, pc, out, content, data, output_json>>

\* the cursor of SExprParser and its calls under way
cursorvars == <<cursor, frames>>

\* the variables of URLDownloader
downloadvars == <<out_dir, futures, max_workers>>

\* the variables of the Lambda functions
lambdavars == <<event, environ, lpc, record_index, calls, tmp_files, stage1_result, response>>

\* what the schematic parser run on its own leaves alone
hostvars == <<cursorvars, downloadvars, lambdavars>>

vars == <<parservars, hostvars>>

(***************************************************************************)
(* Bounds of the model                                                     *)
(***************************************************************************)
MaxWires == 4
MaxJunctions == 1
MaxLabels == 2
MaxSymbols == 2
MaxNodes == 5

\* values time.time() may return, in seconds
Times == {1, 2}

(***************************************************************************)
(* Generic helpers: sequences, dicts, strings                              *)
(***************************************************************************)
Range(s) == {s[i] : i \in 1..Len(s)}

RECURSIVE ConcatAll(_)
ConcatAll(ss) == IF ss = <<>> THEN <<>> ELSE Head(ss) \o ConcatAll(Tail(ss))

\* dict.get / "k in d"
DictHas(d, key) == \E i \in 1..Len(d) : d[i].k = key
DictGet(d, key) == d[CHOOSE i \in 1..Len(d) : d[i].k = key].v

\* d[key] = val: an existing key keeps its place, a new key goes last
DictSet(d, key, val) ==
    IF DictHas(d, key)
    THEN [i \in 1..Len(d) |-> IF d[i].k = key THEN [k |-> key, v |-> val] ELSE d[i]]
    ELSE Append(d, [k |-> key, v |-> val])

DictKeys(d) == [i \in 1..Len(d) |-> d[i].k]

Digits == <<"0", "1", "2", "3", "4", "5", "6", "7", "8", "9">>

\* str(n) of a natural number, as the f-string of _build_nets formats it
RECURSIVE Str(_)
Str(n) == IF n < 10 THEN <<Digits[n + 1]>>
          ELSE Str(n \div 10) \o <<Digits[(n % 10) + 1]>>

\* s.startswith(p)
StartsWith(s, p) == Len(s) >= Len(p) /\ SubSeq(s, 1, Len(p)) = p

NetPrefix == <<"N", "e", "t", "_">>

PARSER_VERSION == "1.0.0"

(***************************************************************************)
(* Data classes                                                            *)
(***************************************************************************)
Point(x, y) == [x |-> x, y |-> y]

Origin == Point(0, 0)

Wire(start, end) == [start |-> start, end |-> end]

Label(text, position, rotation, type) ==
    [text |-> text, position |-> position, rotation |-> rotation, type |-> type]

Pin(number, name, type, position, orientation, length) ==
    [number |-> number, name |-> name, type |-> type, position |-> position,
     orientation |-> orientation, length |-> length]

\* Net.wires holds the Wire objects of parser.wires themselves: the model keeps
\* each as its 1-based index in parser.wires (object identity).
Net(name, pins, wires, junctions, labels) ==
    [name |-> name, pins |-> pins, wires |-> wires, junctions |-> junctions,
     labels |-> labels]

\* the square of Point.distance_to
DistanceSq(p1, p2) == (p1.x - p2.x) * (p1.x - p2.x) + (p1.y - p2.y) * (p1.y - p2.y)

\* tolerance = 0.01 schematic units, in grid units
tolerance == 5

PointsCloseStrict(p1, p2, tol) == DistanceSq(p1, p2) < tol * tol

\* p1.distance_to(p2) <= tolerance
PointsClose(p1, p2, tol) == DistanceSq(p1, p2) <= tol * tol

\* the state of a KiCadSchematicParser after __init__
NewParser ==
    [components |-> <<>>, nets |-> <<>>, lib_symbols |-> <<>>, wires |-> <<>>,
     junctions |-> <<>>, labels |-> <<>>, metadata |-> <<>>]

NoDoc == [none |-> TRUE]

(***************************************************************************)
(* The generic tree SExprParser hands to the model builder.  A numeric     *)
(* slot holds an atom: Num(n) is an atom float() accepts (its value n in   *)
(* grid units), NonNumeric one on which float() raises ValueError.         *)
(*   wire node      (wire (pts (xy x y) ...))       [pts]                  *)
(*   junction node  (junction (at x y))             [at]  (at: 0 or 1)     *)
(*   label node     (label "text" (at x y rot))     [text, at, type]       *)
(*   symbol node    (symbol lib_id child ...)       [lib_id, children]     *)
(*   children of a symbol: (at x y rot), (property name value),            *)
(*   (pin type shape (at x y) (number n))                                  *)
(***************************************************************************)
Num(n) == [num |-> TRUE, v |-> n]

NonNumeric == [num |-> FALSE, v |-> 0]

XY(x, y) == [x |-> Num(x), y |-> Num(y)]

At(x, y, rot) == [tag |-> "at", x |-> Num(x), y |-> Num(y), rot |-> rot]

Property(name, value) == [tag |-> "property", name |-> name, value |-> value]

PinNode(type, number, at) == [tag |-> "pin", type |-> type, number |-> number, at |-> at]

None == [none |-> TRUE]

\* float(atom) returns (does not raise) on every atom of the sequence
FloatOk(atoms) == \A i \in 1..Len(atoms) : atoms[i].num

Float(atom) == atom.v

XYPoint(xy) == Point(Float(xy.x), Float(xy.y))

ParseWireRaisesOnShort(node) ==
    \/ Len(node.pts) < 2
    \/ \E i \in 1..Len(node.pts) : ~FloatOk(<<node.pts[i].x, node.pts[i].y>>)

\* _parse_wire raises ValueError when a coordinate is not numeric
ParseWireRaises(node) ==
    \E i \in 1..Len(node.pts) : ~FloatOk(<<node.pts[i].x, node.pts[i].y>>)

\* _parse_wire: pts collects every (xy x y) of the pts child
ParseWire(node) ==
    LET pts == [i \in 1..Len(node.pts) |-> XYPoint(node.pts[i])]
    IN  IF Len(pts) >= 2 THEN Wire(pts[1], pts[2]) ELSE Wire(Origin, Origin)

ParseJunctionRaises(node) ==
    \E i \in 1..Len(node.at) : ~FloatOk(<<node.at[i].x, node.at[i].y>>)

\* _parse_junction: the last (at x y) child gives the position, none leaves the origin
ParseJunction(node) ==
    [position |-> IF node.at = <<>> THEN Origin ELSE XYPoint(node.at[Len(node.at)])]

ParseLabelRaisesOnPosition(node) ==
    \E i \in 1..Len(node.at) : ~FloatOk(<<node.at[i].x, node.at[i].y>>)

\* _parse_label raises ValueError when a coordinate or the rotation is not numeric
ParseLabelRaises(node) ==
    \E i \in 1..Len(node.at) : ~FloatOk(<<node.at[i].x, node.at[i].y>> \o node.at[i].rot)

\* _parse_label
ParseLabel(node, label_type) ==
    LET last == node.at[Len(node.at)]
        pos == IF node.at = <<>> THEN Origin ELSE XYPoint(last)
        rotation == IF node.at = <<>> \/ last.rot = <<>> THEN 0 ELSE Float(last.rot[1])
    IN  Label(node.text, pos, rotation, label_type)

\* _parse_property; every property node of the model has a name and a value
\* (len(item) >= 3), its (at ...) and (effects ...) children are not modelled
ParseProperty(child) ==
    [name |-> child.name, value |-> child.value, position |-> Origin, rotation |-> 0]

\* _parse_pin; every pin node of the model has a type and a shape (len(item) >= 3)
ParsePin(child) ==
    LET pos == IF child.at = <<>> THEN Origin ELSE XYPoint(child.at[Len(child.at)])
        number == IF child.number = <<>> THEN "" ELSE child.number[Len(child.number)]
    IN  Pin(number, "", child.type, pos, 0, 0)

ParseSymbolRaises(node) ==
    \E i \in 1..Len(node.children) :
        LET c == node.children[i]
        IN  \/ c.tag = "at" /\ ~FloatOk(<<c.x, c.y>> \o c.rot)
            \/ c.tag = "pin" /\ \E j \in 1..Len(c.at) : ~FloatOk(<<c.at[j].x, c.at[j].y>>)

\* the loop of _parse_symbol over item[2:], from child i on
RECURSIVE SymbolScan(_, _, _)
SymbolScan(children, i, acc) ==
    IF i > Len(children) THEN acc
    ELSE LET c == children[i]
             next ==
                 CASE c.tag = "at" ->
                        [acc EXCEPT !.pos = Point(Float(c.x), Float(c.y)),
                                    !.rotation = IF c.rot = <<>> THEN @ ELSE Float(c.rot[1])]
                   [] c.tag = "property" ->
                        [acc EXCEPT !.properties = DictSet(@, c.name, ParseProperty(c))]
                   [] c.tag = "pin" ->
                        [acc EXCEPT !.pins = DictSet(@, ParsePin(c).number, ParsePin(c))]
                   [] OTHER -> acc
         IN  SymbolScan(children, i + 1, next)

\* properties.get(name, {}).get('value', '')
PropertyValue(properties, name) ==
    IF DictHas(properties, name) THEN DictGet(properties, name).value ELSE ""

ParseSymbolKeepsUnnamed(node) ==
    LET acc == SymbolScan(node.children, 1,
                   [pos |-> Origin, rotation |-> 0, properties |-> <<>>, pins |-> <<>>])
    IN  IF Len(node.children) < 1 THEN None
        ELSE [reference |-> PropertyValue(acc.properties, "Reference"),
              value |-> PropertyValue(acc.properties, "Value"),
              footprint |-> PropertyValue(acc.properties, "Footprint"),
              position |-> acc.pos, rotation |-> acc.rotation,
              library_id |-> node.lib_id, pins |-> acc.pins,
              properties |-> acc.properties]

\* _parse_symbol: None for a node without children (len(item) < 3) and for a
\* symbol whose Reference is missing or empty, a Component otherwise
ParseSymbol(node) ==
    LET acc == SymbolScan(node.children, 1,
                   [pos |-> Origin, rotation |-> 0, properties |-> <<>>, pins |-> <<>>])
        reference == PropertyValue(acc.properties, "Reference")
    IN  IF Len(node.children) < 1 THEN None
        ELSE IF reference = "" THEN None
        ELSE [reference |-> reference,
              value |-> PropertyValue(acc.properties, "Value"),
              footprint |-> PropertyValue(acc.properties, "Footprint"),
              position |-> acc.pos, rotation |-> acc.rotation,
              library_id |-> node.lib_id, pins |-> acc.pins,
              properties |-> acc.properties]

(***************************************************************************)
(* Net synthesis: _build_nets                                              *)
(***************************************************************************)
\* the four endpoint tests of lines 479-482
WireTouches(wire, existing_wire) ==
    \/ PointsClose(wire.start, existing_wire.start, tolerance)
    \/ PointsClose(wire.start, existing_wire.end, tolerance)
    \/ PointsClose(wire.end, existing_wire.start, tolerance)
    \/ PointsClose(wire.end, existing_wire.end, tolerance)

ConnectedGroupsLastOnly(wires, k, wire_groups) ==
    {i \in 1..Len(wire_groups) :
        WireTouches(wires[k], wires[wire_groups[i][Len(wire_groups[i])]])}

\* connected_groups of wire k: the groups holding a wire that wire k touches
ConnectedGroups(wires, k, wire_groups) ==
    {i \in 1..Len(wire_groups) :
        \E j \in 1..Len(wire_groups[i]) : WireTouches(wires[k], wires[wire_groups[i][j]])}

\* the elements of a set of numbers as a sequence, largest first
RECURSIVE SortedReverse(_)
SortedReverse(S) ==
    IF S = {} THEN <<>>
    ELSE LET m == CHOOSE x \in S : \A y \in S : y <= x
         IN  <<m>> \o SortedReverse(S \ {m})

\* the sequence without the places in S ("del wire_groups[group_idx]" for each)
RECURSIVE DeletePlaces(_, _, _)
DeletePlaces(seq, S, i) ==
    IF i > Len(seq) THEN <<>>
    ELSE (IF i \in S THEN <<>> ELSE <<seq[i]>>) \o DeletePlaces(seq, S, i + 1)

PlaceWireFirstGroupOnly(wires, k, wire_groups) ==
    LET connected_groups == ConnectedGroups(wires, k, wire_groups)
    IN  IF connected_groups = {} THEN Append(wire_groups, <<k>>)
        ELSE LET c == CHOOSE c \in connected_groups : \A d \in connected_groups : c <= d
             IN  [wire_groups EXCEPT ![c] = Append(@, k)]

\* one iteration of the loop of lines 474-498: wire k joins the groups
PlaceWire(wires, k, wire_groups) ==
    LET connected_groups == ConnectedGroups(wires, k, wire_groups)
    IN  IF connected_groups = {} THEN Append(wire_groups, <<k>>)
        ELSE IF Cardinality(connected_groups) = 1
        THEN LET c == CHOOSE c \in connected_groups : TRUE
             IN  [wire_groups EXCEPT ![c] = Append(@, k)]
        ELSE LET order == SortedReverse(connected_groups)
                 merged_group ==
                     <<k>> \o ConcatAll([n \in 1..Len(order) |-> wire_groups[order[n]]])
             IN  Append(DeletePlaces(wire_groups, connected_groups, 1), merged_group)

\* the loop of lines 474-498 from wire k on
RECURSIVE GroupWires(_, _, _)
GroupWires(wires, k, wire_groups) ==
    IF k > Len(wires) THEN wire_groups
    ELSE GroupWires(wires, k + 1, PlaceWire(wires, k, wire_groups))

\* wire_groups after the loop of lines 474-498
WireGroups(wires) == GroupWires(wires, 1, <<>>)

OnGroupStartOnly(wires, wire_group, p) ==
    \E j \in 1..Len(wire_group) : PointsClose(p, wires[wire_group[j]].start, tolerance)

\* "for wire in wire_group: if close(p, wire.start) or close(p, wire.end)"
OnGroup(wires, wire_group, p) ==
    \E j \in 1..Len(wire_group) :
        \/ PointsClose(p, wires[wire_group[j]].start, tolerance)
        \/ PointsClose(p, wires[wire_group[j]].end, tolerance)

\* net_labels of lines 505-513
NetLabels(self, wire_group) ==
    LET Attached(label) == OnGroup(self.wires, wire_group, label.position)
    IN  SelectSeq(self.labels, Attached)

\* lines 511-512, for one attached label
NameStep(net_name, label) ==
    IF label.text # <<>> /\ ~StartsWith(net_name, NetPrefix) THEN label.text ELSE net_name

\* net_name after the attached labels from place n on have been met
RECURSIVE NameAfter(_, _, _)
NameAfter(net_labels, n, net_name) ==
    IF n > Len(net_labels) THEN net_name
    ELSE NameAfter(net_labels, n + 1, NameStep(net_name, net_labels[n]))

NetNameOneBased(self, i, wire_group) ==
    NameAfter(NetLabels(self, wire_group), 1, NetPrefix \o Str(i + 1))

\* net_name of group i (0-based) after the loop of lines 506-513
NetName(self, i, wire_group) ==
    NameAfter(NetLabels(self, wire_group), 1, NetPrefix \o Str(i))

\* net_junctions of lines 516-522
NetJunctions(self, wire_group) ==
    LET Attached(junction) == OnGroup(self.wires, wire_group, junction.position)
    IN  SelectSeq(self.junctions, Attached)

PinPositionRotated(component, pin) ==
    LET dx == pin.position.x
        dy == pin.position.y
        offset == CASE component.rotation = 90 -> Point(0 - dy, dx)
                    [] component.rotation = 180 -> Point(0 - dx, 0 - dy)
                    [] component.rotation = 270 -> Point(dy, 0 - dx)
                    [] OTHER -> Point(dx, dy)
    IN  Point(component.position.x + offset.x, component.position.y + offset.y)

\* pin_pos of lines 528-531: the component's rotation is not applied
PinPosition(component, pin) ==
    Point(component.position.x + pin.position.x, component.position.y + pin.position.y)

\* the (comp_ref, pin_num) pairs one component adds to net_pins, lines 527-537
ComponentPins(self, comp_ref, component, wire_group) ==
    LET Attached(entry) ==
            OnGroup(self.wires, wire_group, PinPosition(component, entry.v))
        hit == SelectSeq(component.pins, Attached)
    IN  [n \in 1..Len(hit) |-> <<comp_ref, hit[n].k>>]

\* net_pins of lines 525-537
NetPins(self, wire_group) ==
    ConcatAll([c \in 1..Len(self.components) |->
        ComponentPins(self, self.components[c].k, self.components[c].v, wire_group)])

EmitNetPinsOnly(self, nets, i, wire_group) ==
    LET net_name == NetName(self, i - 1, wire_group)
        net_pins == NetPins(self, wire_group)
    IN  IF net_pins # <<>>
        THEN DictSet(nets, net_name,
                 Net(net_name, net_pins, wire_group, NetJunctions(self, wire_group),
                     NetLabels(self, wire_group)))
        ELSE nets

\* the body of the loop of lines 501-546 for group i (1-based place, named with i - 1)
EmitNet(self, nets, i, wire_group) ==
    LET net_name == NetName(self, i - 1, wire_group)
        net_pins == NetPins(self, wire_group)
    IN  IF net_pins # <<>> \/ wire_group # <<>>
        THEN DictSet(nets, net_name,
                 Net(net_name, net_pins, wire_group, NetJunctions(self, wire_group),
                     NetLabels(self, wire_group)))
        ELSE nets

\* the loop of lines 501-546 from group i on
RECURSIVE EmitNets(_, _, _, _)
EmitNets(self, wire_groups, i, nets) ==
    IF i > Len(wire_groups) THEN nets
    ELSE EmitNets(self, wire_groups, i + 1, EmitNet(self, nets, i, wire_groups[i]))

\* _build_nets: self.nets is written into, never cleared
BuildNetsOf(self) ==
    [self EXCEPT !.nets = EmitNets(self, WireGroups(self.wires), 1, self.nets)]

(***************************************************************************)
(* Serializer: _to_dict                                                    *)
(***************************************************************************)
\* time.strftime('%Y-%m-%d %H:%M:%S UTC', time.gmtime(t)): a text that t determines
Readable(t) == <<"UTC", t>>

\* Path(filename).name: the last component of the path
PathName(path) == path[Len(path)]

WireDict(w) == [start |-> w.start, end |-> w.end]

\* the 'nets' entry for one net: wires by value, junctions as their positions
NetDict(self, net) ==
    [name |-> net.name, pins |-> net.pins,
     wires |-> [n \in 1..Len(net.wires) |-> WireDict(self.wires[net.wires[n]])],
     junctions |-> [n \in 1..Len(net.junctions) |-> net.junctions[n].position],
     labels |-> net.labels]

ToDictStampsMetadata(self, original_filename, parse_timestamp) ==
    [bedroq_meta |-> [parser_version |-> PARSER_VERSION,
                      original_filename |-> original_filename,
                      parsed_date_unix |-> parse_timestamp,
                      parsed_date_readable |-> Readable(parse_timestamp)],
     metadata |-> DictSet(self.metadata, "parsed_date", parse_timestamp),
     library_symbols |-> self.lib_symbols,
     components |-> self.components,
     nets |-> [n \in 1..Len(self.nets) |->
                  [k |-> self.nets[n].k, v |-> NetDict(self, self.nets[n].v)]],
     wires |-> [n \in 1..Len(self.wires) |-> WireDict(self.wires[n])],
     junctions |-> [n \in 1..Len(self.junctions) |-> self.junctions[n].position],
     labels |-> self.labels]

\* _to_dict
ToDict(self, original_filename, parse_timestamp) ==
    [bedroq_meta |-> [parser_version |-> PARSER_VERSION,
                      original_filename |-> original_filename,
                      parsed_date_unix |-> parse_timestamp,
                      parsed_date_readable |-> Readable(parse_timestamp)],
     metadata |-> self.metadata,
     library_symbols |-> self.lib_symbols,
     components |-> self.components,
     nets |-> [n \in 1..Len(self.nets) |->
                  [k |-> self.nets[n].k, v |-> NetDict(self, self.nets[n].v)]],
     wires |-> [n \in 1..Len(self.wires) |-> WireDict(self.wires[n])],
     junctions |-> [n \in 1..Len(self.junctions) |-> self.junctions[n].position],
     labels |-> self.labels]

(***************************************************************************)
(* Input nodes of the model (coordinates in grid units: 5 = 0.01,          *)
(* 5000 = 10.0)                                                            *)
(***************************************************************************)
W1 == [pts |-> <<XY(0, 0), XY(5000, 0)>>]
W2 == [pts |-> <<XY(5000, 0), XY(5000, 5000)>>]
\* (3,4) is at distance exactly 5 from (0,0)
WT == [pts |-> <<XY(3, 4), XY(6, 8)>>]
\* (1,5) is at squared distance 26 from (0,0) and 5 from (3,4); (6,13) is at 5 from (6,8)
WO == [pts |-> <<XY(1, 5), XY(6, 13)>>]
\* a wire node with a single point
WD == [pts |-> <<XY(5000, 0)>>]
\* a wire node with a non-numeric coordinate
WBad == [pts |-> <<[x |-> NonNumeric, y |-> Num(0)], XY(0, 0)>>]

J1 == [at |-> <<XY(5000, 0)>>]
\* a junction node without (at ...)
J0 == [at |-> <<>>]

VCC == <<"V", "C", "C">>
GND == <<"G", "N", "D">>

LVcc == [text |-> VCC, at |-> <<[x |-> Num(0), y |-> Num(0), rot |-> <<>>]>>, type |-> "label"]
LGnd == [text |-> GND, at |-> <<[x |-> Num(5000), y |-> Num(0), rot |-> <<Num(90)>>]>>,
         type |-> "hierarchical_label"]
LEmpty == [text |-> <<>>, at |-> <<[x |-> Num(0), y |-> Num(0), rot |-> <<>>]>>, type |-> "label"]

\* U1: pin 1 at 4997+3, 4996+4 = (5000, 5000)
SymU1 == [lib_id |-> "Device:U",
          children |-> <<At(4997, 4996, <<>>), Property("Reference", "U1"),
                         Property("Value", "MCU"),
                         PinNode("passive", <<"1">>, <<XY(3, 4)>>)>>]
\* U2: pin 1 at (3, 4), within the tolerance of (0,0) and of (1,5)
SymU2 == [lib_id |-> "Device:R",
          children |-> <<At(2, 2, <<Num(90)>>), Property("Reference", "U2"),
                         PinNode("passive", <<"1">>, <<XY(1, 2)>>)>>]
\* U1 once more: pin 1 at (0, 2500), away from every wire
SymU1Far == [lib_id |-> "Device:U",
             children |-> <<At(0, 2500, <<>>), Property("Reference", "U1"),
                            PinNode("passive", <<"1">>, <<XY(0, 0)>>)>>]
\* no Reference property; its pin lies at (0,0)
SymNoRef == [lib_id |-> "Device:C",
             children |-> <<At(0, 0, <<>>), Property("Value", "10n"),
                            PinNode("passive", <<"1">>, <<XY(0, 0)>>)>>]
\* a Reference property with an empty value; its pin lies at (5000,0)
SymEmptyRef == [lib_id |-> "Device:C",
                children |-> <<At(5000, 0, <<>>), Property("Reference", ""),
                               PinNode("passive", <<"1">>, <<>>)>>]
\* (symbol lib_id): no children at all
SymBare == [lib_id |-> "Device:C", children |-> <<>>]
\* a non-numeric coordinate in (at ...)
SymBad == [lib_id |-> "Device:C",
           children |-> <<[tag |-> "at", x |-> NonNumeric, y |-> Num(0), rot |-> <<>>],
                          Property("Reference", "U9")>>]

WireNodes == {W1, W2, WO}
AllWireNodes == {W1, W2, WT, WO, WD, WBad}
JunctionNodes == {J1, J0}
LabelNodes == {LVcc, LGnd, LEmpty}
SymbolNodes == {SymU1, SymU1Far, SymU2, SymNoRef, SymEmptyRef, SymBare, SymBad}

FirstFile == <<"in", "board.kicad_sch">>
Filenames == {FirstFile, <<"other.kicad_sch">>}

(***************************************************************************)
(* _parse_schematic: the branches of the dispatch of lines 189-222         *)
(***************************************************************************)
EmptyDoc == [wires |-> <<>>, junctions |-> <<>>, labels |-> <<>>, symbols |-> <<>>]

NodeCount(d) == Len(d.wires) + Len(d.junctions) + Len(d.labels) + Len(d.symbols)

AddWireDropsShort(self, node) ==
    IF Len(node.pts) < 2 THEN self
    ELSE [self EXCEPT !.wires = Append(@, ParseWire(node))]

\* lines 205-206
AddWire(self, node) == [self EXCEPT !.wires = Append(@, ParseWire(node))]

\* lines 207-208
AddJunction(self, node) == [self EXCEPT !.junctions = Append(@, ParseJunction(node))]

\* lines 209-212
AddLabel(self, node) == [self EXCEPT !.labels = Append(@, ParseLabel(node, node.type))]

AddSymbolKeepsFirst(self, node) ==
    LET comp == ParseSymbol(node)
    IN  IF comp = None \/ DictHas(self.components, comp.reference) THEN self
        ELSE [self EXCEPT !.components = DictSet(@, comp.reference, comp)]

\* lines 213-216
AddSymbol(self, node) ==
    LET comp == ParseSymbol(node)
    IN  IF comp = None THEN self
        ELSE [self EXCEPT !.components = DictSet(@, comp.reference, comp)]

(***************************************************************************)
(* The parts of the program a specification does not run                   *)
(***************************************************************************)
\* parse() is not run step by step
CursorIdle == cursor = 0 /\ frames = <<>>

\* no URLDownloader
DownloadIdle == out_dir = <<>> /\ futures = <<>> /\ max_workers = 0

\* no Lambda function is invoked
LambdaIdle ==
    /\ event = None
    /\ environ = None
    /\ lpc = "idle"
    /\ record_index = 0
    /\ calls = <<>>
    /\ tmp_files = {}
    /\ stage1_result = None
    /\ response = None

HostIdle == CursorIdle /\ DownloadIdle /\ LambdaIdle

\* no schematic is parsed
ParserIdle ==
    /\ parser = NewParser
    /\ fresh = NewParser
    /\ doc = EmptyDoc
    /\ filename = FirstFile
    /\ pc = "idle"
    /\ out = NoDoc
    /\ content = None
    /\ data = None
    /\ output_json = NoDoc

(***************************************************************************)
(* Actions                                                                 *)
(***************************************************************************)
Init ==
    /\ parser = NewParser
    /\ fresh = NewParser
    /\ doc = EmptyDoc
    /\ filename = FirstFile
    /\ pc = "parse"
    /\ out = NoDoc
    \* the file has passed line 173; its text is not tracked, its nodes are supplied one by one
    /\ content = None
    /\ data = None
    /\ output_json = NoDoc
    /\ HostIdle

\* one iteration of the loop of _parse_schematic on a wire node
ParseWireNode(node) ==
    /\ pc = "parse"
    /\ Len(parser.wires) < MaxWires
    /\ NodeCount(doc) < MaxNodes
    /\ doc' = [doc EXCEPT !.wires = Append(@, node)]
    /\ IF ParseWireRaises(node)
       THEN pc' = "failed" /\ UNCHANGED <<parser, fresh>>
       ELSE /\ parser' = AddWire(parser, node)
            /\ fresh' = AddWire(fresh, node)
            /\ pc' = pc
    /\ UNCHANGED <<filename, out>>
    /\ UNCHANGED filevars
    /\ UNCHANGED hostvars

\* one iteration of the loop of _parse_schematic on a junction node
ParseJunctionNode(node) ==
    /\ pc = "parse"
    /\ Len(parser.junctions) < MaxJunctions
    /\ NodeCount(doc) < MaxNodes
    /\ doc' = [doc EXCEPT !.junctions = Append(@, node)]
    /\ IF ParseJunctionRaises(node)
       THEN pc' = "failed" /\ UNCHANGED <<parser, fresh>>
       ELSE /\ parser' = AddJunction(parser, node)
            /\ fresh' = AddJunction(fresh, node)
            /\ pc' = pc
    /\ UNCHANGED <<filename, out>>
    /\ UNCHANGED filevars
    /\ UNCHANGED hostvars

\* one iteration of the loop of _parse_schematic on a label or hierarchical_label node
ParseLabelNode(node) ==
    /\ pc = "parse"
    /\ Len(parser.labels) < MaxLabels
    /\ NodeCount(doc) < MaxNodes
    /\ doc' = [doc EXCEPT !.labels = Append(@, node)]
    /\ IF ParseLabelRaises(node)
       THEN pc' = "failed" /\ UNCHANGED <<parser, fresh>>
       ELSE /\ parser' = AddLabel(parser, node)
            /\ fresh' = AddLabel(fresh, node)
            /\ pc' = pc
    /\ UNCHANGED <<filename, out>>
    /\ UNCHANGED filevars
    /\ UNCHANGED hostvars

\* one iteration of the loop of _parse_schematic on a top-level symbol node
ParseSymbolNode(node) ==
    /\ pc = "parse"
    /\ Len(doc.symbols) < MaxSymbols
    /\ NodeCount(doc) < MaxNodes
    /\ doc' = [doc EXCEPT !.symbols = Append(@, node)]
    /\ IF ParseSymbolRaises(node)
       THEN pc' = "failed" /\ UNCHANGED <<parser, fresh>>
       ELSE /\ parser' = AddSymbol(parser, node)
            /\ fresh' = AddSymbol(fresh, node)
            /\ pc' = pc
    /\ UNCHANGED <<filename, out>>
    /\ UNCHANGED filevars
    /\ UNCHANGED hostvars

\* parse_file line 176, once the loop of _parse_schematic has seen every node
BuildNets ==
    /\ pc = "parse"
    /\ parser' = BuildNetsOf(parser)
    /\ fresh' = BuildNetsOf(fresh)
    /\ pc' = "built"
    /\ UNCHANGED <<doc, filename, out>>
    /\ UNCHANGED filevars
    /\ UNCHANGED hostvars

\* parse_file lines 179-181: the document is returned
ReturnDict ==
    /\ pc = "built"
    /\ \E t \in Times : out' = ToDict(parser, PathName(filename), t)
    /\ pc' = "done"
    /\ UNCHANGED <<parser, fresh, doc, filename>>
    /\ UNCHANGED filevars
    /\ UNCHANGED hostvars

\* parse_file is called again on the same object, after it returned or raised
ParseFileAgain ==
    /\ pc \in {"done", "failed"}
    /\ \E f \in Filenames : filename' = f
    /\ fresh' = NewParser
    /\ doc' = EmptyDoc
    /\ out' = NoDoc
    /\ pc' = "parse"
    /\ UNCHANGED parser
    /\ UNCHANGED filevars
    /\ UNCHANGED hostvars

\* a parser object that serves one parse_file call, as main and
\* parse_schematic_with_paths use it
Next ==
    \/ \E node \in WireNodes : ParseWireNode(node)
    \/ \E node \in JunctionNodes : ParseJunctionNode(node)
    \/ \E node \in LabelNodes : ParseLabelNode(node)
    \/ \E node \in SymbolNodes : ParseSymbolNode(node)
    \/ BuildNets
    \/ ReturnDict

Spec == Init /\ [][Next]_vars

\* the same, on files that hold wire nodes only
NextWires ==
    \/ \E node \in AllWireNodes : ParseWireNode(node)
    \/ BuildNets
    \/ ReturnDict

SpecWires == Init /\ [][NextWires]_vars

\* a parser object that serves several parse_file calls
ReuseWireNodes == {W1, WO}
ReuseLabelNodes == {LVcc}

NextReuse ==
    \/ \E node \in ReuseWireNodes : ParseWireNode(node)
    \/ \E node \in ReuseLabelNodes : ParseLabelNode(node)
    \/ BuildNets
    \/ ReturnDict
    \/ ParseFileAgain

SpecReuse == Init /\ [][NextReuse]_vars

(***************************************************************************)
(* Grammar parser: SExprParser.  self.text is a sequence of one-character  *)
(* strings, self.pos the 0-based cursor of the source.  A value is None,   *)
(* an atom (a Python str, kept as its characters) or a list of values.     *)
(* An operator that stands for a method returns what the method returned   *)
(* with the cursor it left, or the error it raised.                        *)
(***************************************************************************)
Atom(chars) == [atom |-> chars]

List(items) == [list |-> items]

IsAtom(v) == "atom" \in DOMAIN v

IsList(v) == "list" \in DOMAIN v

Whitespace == {" ", "\t", "\n", "\r"}

\* the value the method returned and the cursor it left
Returned(value, pos) == [raised |-> FALSE, value |-> value, pos |-> pos]

\* raise ValueError(message); position holds the offset when the message names one
Raised(message, position) ==
    [raised |-> TRUE, type |-> "ValueError", message |-> message, position |-> position]

\* self.text[pos]
CharAt(txt, pos) == txt[pos + 1]

\* self.text[start:end]
Slice(txt, start, end) == SubSeq(txt, start + 1, end)

\* skip_whitespace: the cursor it leaves
RECURSIVE SkipWhitespace(_, _)
SkipWhitespace(txt, pos) ==
    IF pos < Len(txt) /\ CharAt(txt, pos) \in Whitespace
    THEN SkipWhitespace(txt, pos + 1)
    ELSE pos

\* expect(char)
Expect(txt, pos, char) ==
    IF pos >= Len(txt) \/ CharAt(txt, pos) # char
    THEN Raised("Expected char at position", <<pos>>)
    ELSE Returned(None, pos + 1)

RECURSIVE BareAtomEndAtQuote(_, _)
BareAtomEndAtQuote(txt, pos) ==
    IF pos < Len(txt) /\ CharAt(txt, pos) \notin (Whitespace \cup {"(", ")", "\""})
    THEN BareAtomEndAtQuote(txt, pos + 1)
    ELSE pos

\* the loop of parse_bare_atom: the cursor it leaves
RECURSIVE BareAtomEnd(_, _)
BareAtomEnd(txt, pos) ==
    IF pos < Len(txt) /\ CharAt(txt, pos) \notin (Whitespace \cup {"(", ")"})
    THEN BareAtomEnd(txt, pos + 1)
    ELSE pos

\* parse_bare_atom
ParseBareAtom(txt, pos) ==
    LET end == BareAtomEnd(txt, pos)
    IN  Returned(Atom(Slice(txt, pos, end)), end)

StringEndAtFirstQuote(txt, pos) ==
    LET quotes == {p \in pos..(Len(txt) - 1) : CharAt(txt, p) = "\""}
    IN  IF quotes = {} THEN Len(txt) ELSE CHOOSE p \in quotes : \A q \in quotes : p <= q

\* the loop of parse_string (lines 120-124): the cursor it leaves; a backslash
\* skips the character after it
RECURSIVE StringEnd(_, _)
StringEnd(txt, pos) ==
    IF pos < Len(txt) /\ CharAt(txt, pos) # "\""
    THEN IF CharAt(txt, pos) = "\\" THEN StringEnd(txt, pos + 2)
                                     ELSE StringEnd(txt, pos + 1)
    ELSE pos

\* parse_string: the atom is the text between the quotes as it stands
ParseString(txt, pos) ==
    LET open == Expect(txt, pos, "\"")
        start == open.pos
        end == StringEnd(txt, start)
    IN  IF open.raised THEN open
        ELSE IF end >= Len(txt) THEN Raised("Unterminated string", <<>>)
        ELSE LET close == Expect(txt, end, "\"")
             IN  IF close.raised THEN close
                 ELSE Returned(Atom(Slice(txt, start, end)), close.pos)

\* parse_atom
ParseAtom(txt, pos) ==
    IF CharAt(txt, pos) = "\"" THEN ParseString(txt, pos) ELSE ParseBareAtom(txt, pos)

RECURSIVE Parse(_, _)
RECURSIVE ParseListLoop(_, _, _)

\* the loop of parse_list (lines 97-106) with result so far
ParseListLoop(txt, pos, result) ==
    LET at == SkipWhitespace(txt, pos)
    IN  IF at >= Len(txt) THEN Raised("Unexpected end of input", <<>>)
        ELSE IF CharAt(txt, at) = ")" THEN Returned(List(result), at + 1)
        ELSE LET item == Parse(txt, at)
             IN  IF item.raised THEN item
                 ELSE ParseListLoop(txt, item.pos, Append(result, item.value))

\* parse_list
ParseList(txt, pos) ==
    LET open == Expect(txt, pos, "(")
    IN  IF open.raised THEN open ELSE ParseListLoop(txt, open.pos, <<>>)

\* parse
Parse(txt, pos) ==
    LET at == SkipWhitespace(txt, pos)
    IN  IF at >= Len(txt) THEN Returned(None, at)
        ELSE IF CharAt(txt, at) = "(" THEN ParseList(txt, at)
        ELSE ParseAtom(txt, at)

(***************************************************************************)
(* The call stack of the host.  parse and parse_list call each other once  *)
(* per nesting level and the source keeps no depth counter, so the         *)
(* interpreter ends the parsing with RecursionError when the lists open at *)
(* once outnumber what its stack holds (some 490 levels under the default  *)
(* limit of CPython; RecursionLimit is that number on the scale of the     *)
(* texts of the model).                                                    *)
(***************************************************************************)
RecursionLimit == 5

\* the interpreter raises RecursionError (a RuntimeError) in the innermost call
RecursionError ==
    [raised |-> TRUE, type |-> "RecursionError",
     message |-> "maximum recursion depth exceeded", position |-> <<>>]

RECURSIVE Deepest(_, _, _)
RECURSIVE DeepestInList(_, _, _)

\* the loop of parse_list running with depth lists open: the most lists open at once
DeepestInList(txt, pos, depth) ==
    LET at == SkipWhitespace(txt, pos)
    IN  IF at >= Len(txt) \/ CharAt(txt, at) = ")" THEN depth
        ELSE LET item == Parse(txt, at)
                 below == Deepest(txt, at, depth)
             IN  IF item.raised THEN below
                 ELSE LET later == DeepestInList(txt, item.pos, depth)
                      IN  IF later > below THEN later ELSE below

\* parse called with depth lists open: the most lists open at once while it runs
Deepest(txt, pos, depth) ==
    LET at == SkipWhitespace(txt, pos)
    IN  IF at < Len(txt) /\ CharAt(txt, at) = "("
        THEN DeepestInList(txt, at + 1, depth + 1)
        ELSE depth

\* SExprParser(content).parse()
SExprParse(txt) ==
    IF Deepest(txt, 0, 0) > RecursionLimit THEN RecursionError ELSE Parse(txt, 0)

(***************************************************************************)
(* parse_file, lines 169-173: the root check                               *)
(***************************************************************************)
KICAD_SCH == <<"k", "i", "c", "a", "d", "_", "s", "c", "h">>

\* "not data": None, the empty str and the empty list are falsy
Falsy(v) == v = None \/ (IsAtom(v) /\ v.atom = <<>>) \/ (IsList(v) /\ v.list = <<>>)

\* data[0]: the first element of a list, the first character of a str
First(v) == IF IsList(v) THEN v.list[1] ELSE Atom(<<v.atom[1]>>)

NotValidOnlyEmpty(v) == Falsy(v)

\* line 172: not data or data[0] != 'kicad_sch'
NotValid(v) == Falsy(v) \/ First(v) # Atom(KICAD_SCH)

(***************************************************************************)
(* float() on the atoms of a parsed text.  The numerals of the model's     *)
(* texts are an optional sign, digits and at most one decimal point, with  *)
(* at most three decimals; the texts hold no exponent, inf, nan or         *)
(* underscore forms.  A coordinate is a multiple of 0.002 and becomes its  *)
(* number of grid units, a rotation is a whole number of degrees.          *)
(***************************************************************************)
IsDigit(c) == c \in Range(Digits)

DigitValue(c) == CHOOSE d \in 0..9 : Digits[d + 1] = c

Unsigned(chars) ==
    IF chars # <<>> /\ chars[1] \in {"-", "+"} THEN Tail(chars) ELSE chars

\* float(chars) returns
IsNumeral(chars) ==
    LET body == Unsigned(chars)
    IN  /\ \A i \in 1..Len(body) : IsDigit(body[i]) \/ body[i] = "."
        /\ \E i \in 1..Len(body) : IsDigit(body[i])
        /\ Cardinality({i \in 1..Len(body) : body[i] = "."}) <= 1

RECURSIVE Natural(_)
Natural(ds) ==
    IF ds = <<>> THEN 0
    ELSE 10 * Natural(SubSeq(ds, 1, Len(ds) - 1)) + DigitValue(ds[Len(ds)])

\* float(chars) in thousandths
Thousandths(chars) ==
    LET body == Unsigned(chars)
        dots == {i \in 1..Len(body) : body[i] = "."}
        dot == IF dots = {} THEN Len(body) + 1 ELSE CHOOSE i \in dots : TRUE
        decimals == SubSeq(SubSeq(body, dot + 1, Len(body)) \o <<"0", "0", "0">>, 1, 3)
        magnitude == 1000 * Natural(SubSeq(body, 1, dot - 1)) + Natural(decimals)
    IN  IF chars[1] = "-" THEN 0 - magnitude ELSE magnitude

\* the element at 0-based index n of a list item, None when the list is shorter
Element(item, n) == IF Len(item.list) > n THEN item.list[n + 1] ELSE None

\* the atom float() is given for a coordinate: float() raises on a missing
\* element (IndexError) and on a list (TypeError) as it does on a non-numeric str
Coordinate(v) ==
    IF IsAtom(v) /\ IsNumeral(v.atom) THEN Num(Thousandths(v.atom) \div 2) ELSE NonNumeric

\* the atom float() is given for a rotation
Rotation(v) ==
    IF IsAtom(v) /\ IsNumeral(v.atom) THEN Num(Thousandths(v.atom) \div 1000) ELSE NonNumeric

(***************************************************************************)
(* The nodes of a parsed text: what _parse_wire, _parse_junction and       *)
(* _parse_label read of a list item.  The lists inside the nodes of the    *)
(* model's texts are not empty and a label's text is an atom.              *)
(***************************************************************************)
TagWire == <<"w", "i", "r", "e">>
TagPts == <<"p", "t", "s">>
TagXy == <<"x", "y">>
TagAt == <<"a", "t">>
TagJunction == <<"j", "u", "n", "c", "t", "i", "o", "n">>
TagLabel == <<"l", "a", "b", "e", "l">>
TagHierarchicalLabel == <<"h", "i", "e", "r", "a", "r", "c", "h", "i", "c", "a", "l", "_">> \o TagLabel

\* isinstance(subitem, list) and subitem[0] == tag
Tagged(subitem, tag) == IsList(subitem) /\ subitem.list # <<>> /\ subitem.list[1] = Atom(tag)

\* the subitems from 0-based index n on that carry the tag
Children(item, n, tag) ==
    LET IsChild(subitem) == Tagged(subitem, tag)
    IN  SelectSeq(SubSeq(item.list, n + 1, Len(item.list)), IsChild)

\* lines 306-310: every (xy x y) of every (pts ...) child
WireNode(item) ==
    LET pts == Children(item, 1, TagPts)
        PointsOf(subitem) ==
            LET xys == Children(subitem, 1, TagXy)
            IN  [n \in 1..Len(xys) |->
                    [x |-> Coordinate(Element(xys[n], 1)), y |-> Coordinate(Element(xys[n], 2))]]
    IN  [pts |-> ConcatAll([n \in 1..Len(pts) |-> PointsOf(pts[n])])]

\* lines 320-322: every (at x y) child
JunctionNode(item) ==
    LET ats == Children(item, 1, TagAt)
    IN  [at |-> [n \in 1..Len(ats) |->
                    [x |-> Coordinate(Element(ats[n], 1)), y |-> Coordinate(Element(ats[n], 2))]]]

\* lines 327-336: the text and every (at x y [rotation]) child after it
LabelNode(item, label_type) ==
    LET ats == Children(item, 2, TagAt)
    IN  [text |-> IF Len(item.list) > 1 THEN item.list[2].atom ELSE <<>>,
         at |-> [n \in 1..Len(ats) |->
                    [x |-> Coordinate(Element(ats[n], 1)), y |-> Coordinate(Element(ats[n], 2)),
                     rot |-> IF Len(ats[n].list) > 3 THEN <<Rotation(ats[n].list[4])>> ELSE <<>>]],
         type |-> label_type]

(***************************************************************************)
(* _parse_schematic on a parsed text.  The items of the model's texts are  *)
(* wire, junction, label and hierarchical_label nodes and items the        *)
(* dispatch of lines 189-222 has no branch for.                            *)
(***************************************************************************)
\* the loop of line 185 from item i on; st holds self, the nodes met and
\* whether a node has raised, which ends the loop
RECURSIVE ParseItems(_, _, _)
ParseItems(items, i, st) ==
    IF i > Len(items) \/ st.raised THEN st
    ELSE LET item == items[i]
             cmd == item.list[1]
             next ==
                 CASE cmd = Atom(TagWire) ->
                        LET node == WireNode(item)
                        IN  [self |-> IF ParseWireRaises(node) THEN st.self
                                      ELSE AddWire(st.self, node),
                             doc |-> [st.doc EXCEPT !.wires = Append(@, node)],
                             raised |-> ParseWireRaises(node)]
                   [] cmd = Atom(TagJunction) ->
                        LET node == JunctionNode(item)
                        IN  [self |-> IF ParseJunctionRaises(node) THEN st.self
                                      ELSE AddJunction(st.self, node),
                             doc |-> [st.doc EXCEPT !.junctions = Append(@, node)],
                             raised |-> ParseJunctionRaises(node)]
                   [] cmd \in {Atom(TagLabel), Atom(TagHierarchicalLabel)} ->
                        LET node == LabelNode(item, IF cmd = Atom(TagLabel) THEN "label"
                                                    ELSE "hierarchical_label")
                        IN  [self |-> IF ParseLabelRaises(node) THEN st.self
                                      ELSE AddLabel(st.self, node),
                             doc |-> [st.doc EXCEPT !.labels = Append(@, node)],
                             raised |-> ParseLabelRaises(node)]
                   [] OTHER -> st
         IN  IF ~IsList(item) \/ item.list = <<>> THEN ParseItems(items, i + 1, st)
             ELSE ParseItems(items, i + 1, next)

\* _parse_schematic(data): the items are data[1:]
ParseSchematic(self, tree) ==
    ParseItems(Tail(tree.list), 1, [self |-> self, doc |-> EmptyDoc, raised |-> FALSE])

(***************************************************************************)
(* The texts of the model                                                  *)
(***************************************************************************)
MaxText == 4

Alphabet == {"(", ")", "\"", "\\", " ", "a"}

\* every text of at most MaxText characters of the alphabet
ShortTexts == UNION {[1..n -> Alphabet] : n \in 0..MaxText}

RECURSIVE Join(_)
Join(parts) ==
    IF parts = <<>> THEN <<>>
    ELSE IF Len(parts) = 1 THEN parts[1]
    ELSE parts[1] \o <<" ">> \o Join(Tail(parts))

\* "(part part ...)"
InParens(parts) == <<"(">> \o Join(parts) \o <<")">>

Quoted(chars) == <<"\"">> \o chars \o <<"\"">>

XYText(x, y) == InParens(<<TagXy, x, y>>)

WireText(points) == InParens(<<TagWire, InParens(<<TagPts>> \o points)>>)

N0 == <<"0">>
N10 == <<"1", "0">>
N20 == <<"2", "0">>
\* 0.006 and 0.008: the point at distance exactly 0.01 from the origin
N0006 == <<"0", ".", "0", "0", "6">>
N0008 == <<"0", ".", "0", "0", "8">>

WireA == WireText(<<XYText(N0, N0), XYText(N10, N0)>>)
WireB == WireText(<<XYText(N10, N10), XYText(N20, N10)>>)
\* three points: (0,0), (10,0), (10,10)
WirePolyline == WireText(<<XYText(N0, N0), XYText(N10, N0), XYText(N10, N10)>>)
WireNear == WireText(<<XYText(N0006, N0008), XYText(<<"-">> \o N10, N0)>>)
WireNonNumeric == WireText(<<XYText(<<"a">>, N0), XYText(N0, N0)>>)
JunctionText == InParens(<<TagJunction, InParens(<<TagAt, N10, N0>>)>>)
LabelText == InParens(<<TagLabel, Quoted(VCC), InParens(<<TagAt, N0, N0, <<"9", "0">> >>)>>)
\* (hierarchical_label "a\"b" (at 10 0 x)): the rotation is not numeric
LabelNonNumeric ==
    InParens(<<TagHierarchicalLabel, Quoted(<<"a", "\\", "\"", "b">>),
               InParens(<<TagAt, N10, N0, <<"x">> >>)>>)

\* txt inside n pairs of parentheses
RECURSIVE Nest(_, _)
Nest(txt, n) == IF n = 0 THEN txt ELSE <<"(">> \o Nest(txt, n - 1) \o <<")">>

Schematic(items) == InParens(<<KICAD_SCH>> \o items)

SampleTexts ==
    {Schematic(<<>>),
     Schematic(<<WireA>>),
     Schematic(<<WireA, WireB, WirePolyline>>),
     Schematic(<<WirePolyline, WireB>>),
     Schematic(<<WireA, WireNear, JunctionText, LabelText>>),
     Schematic(<<WireA, WireNonNumeric, WireB>>),
     Schematic(<<WireNonNumeric>>),
     Schematic(<<JunctionText, LabelNonNumeric, WireA>>),
     Schematic(<<<<"a">>, <<"(", ")">>, InParens(<<TagPts, XYText(N0, N0)>>), WireB>>),
     Schematic(<<WireA>>) \o <<")">>,
     Schematic(<<WireA>>) \o <<" ", "a">>,
     SubSeq(Schematic(<<WireA>>), 1, Len(Schematic(<<WireA>>)) - 1),
     <<"(">> \o Quoted(KICAD_SCH) \o <<" ">> \o WireA \o <<")">>,
     <<"(">> \o Quoted(KICAD_SCH) \o <<" ">> \o WireA,
     <<"\n", " ">> \o Schematic(<<LabelText>>) \o <<"\n">>,
     KICAD_SCH,
     Quoted(KICAD_SCH),
     InParens(<<InParens(<<KICAD_SCH>>)>>),
     InParens(<<<<"k", "i", "c", "a", "d", "_", "p", "c", "b">>, WireA>>),
     InParens(<<TagWire, KICAD_SCH>>),
     <<"(">> \o KICAD_SCH \o Quoted(<<"a">>) \o <<")">>,
     <<"(">> \o KICAD_SCH \o <<" ">> \o <<"\"">> \o WireA \o <<")">>,
     InParens(<<KICAD_SCH, Quoted(<<"\\", "\"">>), <<"a">>>>),
     Schematic(<<Nest(<<"a">>, RecursionLimit - 1)>>),
     Schematic(<<WireA, Nest(<<"a">>, RecursionLimit), WireB>>),
     Nest(KICAD_SCH, RecursionLimit + 1),
     SubSeq(Nest(<<>>, RecursionLimit + 1), 1, RecursionLimit + 1)}

Texts == ShortTexts \cup SampleTexts

(***************************************************************************)
(* Actions on a file given as its text                                     *)
(***************************************************************************)
InitFile ==
    /\ parser = NewParser
    /\ fresh = NewParser
    /\ doc = EmptyDoc
    /\ filename = FirstFile
    /\ pc = "read"
    /\ out = NoDoc
    /\ content \in Texts
    /\ data = None
    /\ output_json = NoDoc
    /\ HostIdle

\* parse_file lines 166-173: the text is parsed and the root checked; either
\* error leaves the call
ReadAndParse ==
    /\ pc = "read"
    /\ data' = SExprParse(content)
    /\ pc' = IF data'.raised \/ NotValid(data'.value) THEN "failed" ELSE "tree"
    /\ UNCHANGED <<parser, fresh, doc, filename, out, content, output_json>>
    /\ UNCHANGED hostvars

\* parse_file line 175: _parse_schematic(data); a node that raises leaves the
\* call with self as the nodes before it made it
ParseSchematicData ==
    /\ pc = "tree"
    /\ LET st == ParseSchematic(parser, data.value)
       IN  /\ parser' = st.self
           /\ fresh' = ParseSchematic(fresh, data.value).self
           /\ doc' = st.doc
           /\ pc' = IF st.raised THEN "failed" ELSE "parse"
    /\ UNCHANGED <<filename, out, content, data, output_json>>
    /\ UNCHANGED hostvars

\* parse_schematic_with_paths lines 702-706: the document parse_file returned
\* is written to the output file
SaveJson ==
    /\ pc = "done"
    /\ output_json' = [json |-> out]
    /\ pc' = "saved"
    /\ UNCHANGED <<parser, fresh, doc, filename, out, content, data>>
    /\ UNCHANGED hostvars

\* parse_schematic_with_paths on a file given as its text
NextFile ==
    \/ ReadAndParse
    \/ ParseSchematicData
    \/ BuildNets
    \/ ReturnDict
    \/ SaveJson

SpecFile == InitFile /\ [][NextFile]_vars

(***************************************************************************)
(* _to_dict called again on the object that parse_file has served          *)
(***************************************************************************)
\* _to_dict(original_filename) once more: the clock has not gone back
ToDictAgain ==
    /\ pc \in {"done", "again"}
    /\ \E t \in Times :
        /\ t >= out.bedroq_meta.parsed_date_unix
        /\ out' = ToDict(parser, PathName(filename), t)
    /\ pc' = "again"
    /\ UNCHANGED <<parser, fresh, doc, filename>>
    /\ UNCHANGED filevars
    /\ UNCHANGED hostvars

NextSerialize ==
    \/ Next
    \/ ToDictAgain

SpecSerialize == Init /\ [][NextSerialize]_vars

(***************************************************************************)
(* Files of wire nodes among which one lies away from all the others       *)
(***************************************************************************)
\* no endpoint within the tolerance of an endpoint of W1, WT or WO
WFar == [pts |-> <<XY(5000, 5000), XY(2500, 5000)>>]

ClusterWireNodes == {W1, WT, WO, WFar}

NextClusters ==
    \/ \E node \in ClusterWireNodes : ParseWireNode(node)
    \/ BuildNets
    \/ ReturnDict

SpecClusters == Init /\ [][NextClusters]_vars

(***************************************************************************)
(* SExprParser.parse() step by step: one action per iteration of a loop    *)
(* and per call or return.  frames holds the calls under way (parse,       *)
(* parse_list, parse_string, parse_bare_atom; parse_atom only passes on)   *)
(* with the locals result and start; self.pos is cursor.                   *)
(***************************************************************************)
\* the frame of the innermost call
Top == frames[Len(frames)]

\* the calls of parse_list under way
ListsOpen == Cardinality({k \in 1..Len(frames) : frames[k].fn = "parse_list"})

\* the test of the loop of skip_whitespace
AtWhitespace == cursor < Len(content) /\ CharAt(content, cursor) \in Whitespace

StringAdvanceNone(c) == IF c = "\\" THEN 0 ELSE 1

\* lines 121-124: how far an iteration of the loop of parse_string moves the cursor
StringAdvance(c) == IF c = "\\" THEN 2 ELSE 1

\* the callers take the value v: parse hands it on, parse_list appends it
RECURSIVE Unwind(_, _)
Unwind(callers, v) ==
    IF callers = <<>> THEN [frames |-> <<>>, returned |-> TRUE, value |-> v]
    ELSE IF callers[Len(callers)].fn = "parse_list"
         THEN [frames |-> [callers EXCEPT ![Len(callers)].result = Append(@, v)],
               returned |-> FALSE, value |-> None]
         ELSE Unwind(SubSeq(callers, 1, Len(callers) - 1), v)

\* the innermost call returns v with the cursor at at
ReturnValue(v, at) ==
    LET after == Unwind(SubSeq(frames, 1, Len(frames) - 1), v)
    IN  /\ cursor' = at
        /\ frames' = after.frames
        /\ IF after.returned
           THEN data' = Returned(v, at) /\ pc' = "returned"
           ELSE UNCHANGED <<data, pc>>

\* an exception leaves every call under way
RaiseError(error) ==
    /\ frames' = <<>>
    /\ data' = error
    /\ pc' = "raised"
    /\ UNCHANGED cursor

InitCursor ==
    /\ parser = NewParser
    /\ fresh = NewParser
    /\ doc = EmptyDoc
    /\ filename = FirstFile
    /\ out = NoDoc
    /\ output_json = NoDoc
    /\ content \in Texts
    /\ data = None
    /\ pc = "scan"
    /\ cursor = 0
    /\ frames = <<[fn |-> "parse"]>>
    /\ DownloadIdle
    /\ LambdaIdle

\* what the steps of parse() leave alone
UnchangedByParse ==
    UNCHANGED <<parser, fresh, doc, filename, out, output_json, content, downloadvars, lambdavars>>

\* an iteration of the loop of skip_whitespace, called by parse and by the loop of parse_list
SkipWhitespaceIteration ==
    /\ pc = "scan"
    /\ Top.fn \in {"parse", "parse_list"}
    /\ AtWhitespace
    /\ cursor' = cursor + 1
    /\ UNCHANGED <<frames, data, pc>>
    /\ UnchangedByParse

\* parse after skip_whitespace (lines 85-91) and the first lines of the method it calls
ParseStep ==
    /\ pc = "scan"
    /\ Top.fn = "parse"
    /\ ~AtWhitespace
    /\ IF cursor >= Len(content) THEN ReturnValue(None, cursor)
       ELSE IF CharAt(content, cursor) = "("
            THEN IF ListsOpen >= RecursionLimit THEN RaiseError(RecursionError)
                 ELSE /\ frames' = Append(frames, [fn |-> "parse_list", result |-> <<>>])
                      /\ cursor' = cursor + 1
                      /\ UNCHANGED <<data, pc>>
       ELSE IF CharAt(content, cursor) = "\""
            THEN /\ frames' = Append(frames, [fn |-> "parse_string", start |-> cursor + 1])
                 /\ cursor' = cursor + 1
                 /\ UNCHANGED <<data, pc>>
       ELSE /\ frames' = Append(frames, [fn |-> "parse_bare_atom", start |-> cursor])
            /\ UNCHANGED <<cursor, data, pc>>
    /\ UnchangedByParse

\* an iteration of the loop of parse_list after skip_whitespace (lines 99-106)
ParseListIteration ==
    /\ pc = "scan"
    /\ Top.fn = "parse_list"
    /\ ~AtWhitespace
    /\ IF cursor >= Len(content) THEN RaiseError(Raised("Unexpected end of input", <<>>))
       ELSE IF CharAt(content, cursor) = ")" THEN ReturnValue(List(Top.result), cursor + 1)
       ELSE /\ frames' = Append(frames, [fn |-> "parse"])
            /\ UNCHANGED <<cursor, data, pc>>
    /\ UnchangedByParse

\* an iteration of the loop of parse_string (lines 120-124)
ParseStringIteration ==
    /\ pc = "scan"
    /\ Top.fn = "parse_string"
    /\ cursor < Len(content) /\ CharAt(content, cursor) # "\""
    /\ cursor' = cursor + StringAdvance(CharAt(content, cursor))
    /\ UNCHANGED <<frames, data, pc>>
    /\ UnchangedByParse

\* parse_string after its loop (lines 126-131)
ParseStringEnd ==
    /\ pc = "scan"
    /\ Top.fn = "parse_string"
    /\ ~(cursor < Len(content) /\ CharAt(content, cursor) # "\"")
    /\ IF cursor >= Len(content) THEN RaiseError(Raised("Unterminated string", <<>>))
       ELSE ReturnValue(Atom(Slice(content, Top.start, cursor)), cursor + 1)
    /\ UnchangedByParse

\* an iteration of the loop of parse_bare_atom (lines 136-138)
ParseBareAtomIteration ==
    /\ pc = "scan"
    /\ Top.fn = "parse_bare_atom"
    /\ cursor < Len(content) /\ CharAt(content, cursor) \notin (Whitespace \cup {"(", ")"})
    /\ cursor' = cursor + 1
    /\ UNCHANGED <<frames, data, pc>>
    /\ UnchangedByParse

\* parse_bare_atom after its loop (line 140)
ParseBareAtomEnd ==
    /\ pc = "scan"
    /\ Top.fn = "parse_bare_atom"
    /\ ~(cursor < Len(content) /\ CharAt(content, cursor) \notin (Whitespace \cup {"(", ")"}))
    /\ ReturnValue(Atom(Slice(content, Top.start, cursor)), cursor)
    /\ UnchangedByParse

NextCursor ==
    \/ SkipWhitespaceIteration
    \/ ParseStep
    \/ ParseListIteration
    \/ ParseStringIteration
    \/ ParseStringEnd
    \/ ParseBareAtomIteration
    \/ ParseBareAtomEnd

\* parse() runs in one thread and goes on until it returns or raises
SpecCursor == InitCursor /\ [][NextCursor]_vars /\ WF_vars(NextCursor)

(***************************************************************************)
(* URLDownloader (src/data/data-ingest/url_downloader.py).  download_all   *)
(* submits one download_one call per URL to a pool of max_workers threads  *)
(* (or runs them one after the other); the calls share the directory       *)
(* out_dir and nothing else.  A step of a call is one access to the        *)
(* directory or to the server.                                             *)
(***************************************************************************)
MaxUrls == 3

\* a URL with what the server answers to it: name is the last segment of its
\* path, cd the file name of the Content-Disposition header ("" when absent)
UrlA == [url |-> "https://x/docs/a.pdf", name |-> "a.pdf", cd |-> ""]
UrlCd == [url |-> "https://x/get?id=7", name |-> "get", cd |-> "a.pdf"]
UrlB == [url |-> "https://y/b.pdf", name |-> "b.pdf", cd |-> ""]
UrlRoot == [url |-> "https://y/", name |-> "", cd |-> ""]

Urls == {UrlA, UrlCd, UrlB, UrlRoot}

\* f"file_{sha8}" of lines 207-208
FileSha8(u) == "file_sha8"

\* _derive_filename on names that the sanitizing of lines 211-213 leaves as they are
DeriveFilename(u) ==
    LET candidate == IF u.cd # "" THEN u.cd ELSE u.name
    IN  IF candidate = "" THEN FileSha8(u) ELSE candidate

\* out_dir / name (n = 0) and out_dir / f"{stem}-{n}{suffix}"
Path(name, n) == [name |-> name, n |-> n]

Paths == {Path(DeriveFilename(u), n) : u \in Urls, n \in 0..MaxUrls}

\* a path with no file
NoFile == [exists |-> FALSE, opened |-> <<>>]

\* the pool runs max_workers calls at a time, the serial branch one
Threads == IF max_workers > 1 THEN max_workers ELSE 1

Running == {i \in 1..Len(futures) : futures[i].pc \notin {"queued", "done"}}

\* the DownloadResult of a call that has ended
Ended(future, ok, path) == [future EXCEPT !.pc = "done", !.ok = ok, !.path = path]

\* download_all, lines 81-90: a directory that may hold a.pdf from an earlier
\* run (opened by download 0), and one call per URL
InitDownload ==
    /\ ParserIdle
    /\ CursorIdle
    /\ LambdaIdle
    /\ max_workers \in {0, 2}
    /\ \E before \in SUBSET {Path("a.pdf", 0)} :
           out_dir = [p \in Paths |-> IF p \in before THEN [exists |-> TRUE, opened |-> <<0>>]
                                      ELSE NoFile]
    /\ \E k \in 2..MaxUrls : \E url_list \in [1..k -> Urls] :
           futures = [i \in 1..k |-> [url |-> url_list[i], pc |-> "queued", n |-> 0,
                                      path |-> None, ok |-> FALSE]]

\* a thread takes the next call submitted: download_one up to the GET (lines 111-143)
DownloadOneStart(i) ==
    /\ futures[i].pc = "queued"
    /\ \A j \in 1..(i - 1) : futures[j].pc # "queued"
    /\ Cardinality(Running) < Threads
    /\ futures' = [futures EXCEPT ![i].pc = "get"]
    /\ UNCHANGED <<out_dir, max_workers>>
    /\ UNCHANGED <<parservars, cursorvars, lambdavars>>

\* lines 142-154: the answer to the GET; an error status or a network error
\* ends the call, otherwise the file name is derived and _unique_path entered
GetResponse(i) ==
    /\ futures[i].pc = "get"
    /\ \/ futures' = [futures EXCEPT ![i] = Ended(@, FALSE, None)]
       \/ futures' = [futures EXCEPT ![i].pc = "unique", ![i].n = 0]
    /\ UNCHANGED <<out_dir, max_workers>>
    /\ UNCHANGED <<parservars, cursorvars, lambdavars>>

\* _unique_path: one test of exists(), on the plain path and then on the numbered ones
UniquePathIteration(i) ==
    /\ futures[i].pc = "unique"
    /\ LET candidate == Path(DeriveFilename(futures[i].url), futures[i].n)
       IN  IF out_dir[candidate].exists
           THEN futures' = [futures EXCEPT ![i].n = @ + 1]
           ELSE futures' = [futures EXCEPT ![i].pc = "open", ![i].path = candidate]
    /\ UNCHANGED <<out_dir, max_workers>>
    /\ UNCHANGED <<parservars, cursorvars, lambdavars>>

\* line 158: open(path, "wb") creates the file or empties the one that is there
OpenPath(i) ==
    /\ futures[i].pc = "open"
    /\ out_dir' = [out_dir EXCEPT ![futures[i].path] =
                       [exists |-> TRUE, opened |-> Append(@.opened, i)]]
    /\ futures' = [futures EXCEPT ![i].pc = "stream"]
    /\ UNCHANGED max_workers
    /\ UNCHANGED <<parservars, cursorvars, lambdavars>>

\* lines 159-179: the body is written; a body over max_file_bytes removes the
\* file and ends the call without a path
StreamToDisk(i) ==
    /\ futures[i].pc = "stream"
    /\ \/ /\ futures' = [futures EXCEPT ![i] = Ended(@, TRUE, futures[i].path)]
          /\ UNCHANGED out_dir
       \/ /\ futures' = [futures EXCEPT ![i] = Ended(@, FALSE, None)]
          /\ out_dir' = [out_dir EXCEPT ![futures[i].path] = NoFile]
    /\ UNCHANGED max_workers
    /\ UNCHANGED <<parservars, cursorvars, lambdavars>>

NextDownload ==
    \/ \E i \in 1..Len(futures) : DownloadOneStart(i)
    \/ \E i \in 1..Len(futures) : GetResponse(i)
    \/ \E i \in 1..Len(futures) : UniquePathIteration(i)
    \/ \E i \in 1..Len(futures) : OpenPath(i)
    \/ \E i \in 1..Len(futures) : StreamToDisk(i)

SpecDownload == InitDownload /\ [][NextDownload]_vars

(***************************************************************************)
(* The schematic processor                                                 *)
(* (src/infra/lambda-functions/schematics-json-encoding-handler/           *)
(* lambda_function.py): lambda_handler is invoked with a batch of SQS      *)
(* records and calls process_schematic_message on each.  A step is a stage *)
(* of process_schematic_message up to its call to S3, DynamoDB or SNS; a   *)
(* call that can fail succeeds or raises, as the service decides.          *)
(***************************************************************************)
MaxRecords == 2

\* the objects of the document bucket: a schematic, a text with another root,
\* a text that ends inside a list
S3Objects ==
    {[text |-> txt] : txt \in {Schematic(<<WireA, WireB>>), InParens(<<TagWire, KICAD_SCH>>), <<"(">>}}

\* an SQS record: whether processing_id, s3_key and original_filename can be read
\* from its body, and the object s3_key names (None when the bucket holds none)
SqsRecords ==
    {[readable |-> r, object |-> o] : r \in {TRUE}, o \in S3Objects \cup {None}}
        \cup {[readable |-> FALSE, object |-> None]}

\* processing_id of the message of record i
ProcessingId(i) == i

\* the record the loop is at
Record == event.Records[record_index]

\* parse_schematic_with_paths on a file that holds txt: the error raised or the
\* document returned, of which the caller reads the two lengths
ParseSchematicWithPaths(txt) ==
    LET read == SExprParse(txt)
        st == ParseSchematic(NewParser, read.value)
        built == BuildNetsOf(st.self)
    IN  IF read.raised \/ NotValid(read.value) THEN [raised |-> TRUE]
        ELSE IF st.raised THEN [raised |-> TRUE]
        ELSE [raised |-> FALSE,
              components |-> Len(built.components), nets |-> Len(built.nets)]

\* the calls the function makes
UpdateItem(processing_id, status, ok) ==
    [api |-> "update_item", processing_id |-> processing_id, status |-> status, ok |-> ok]

DownloadFile(processing_id, ok) ==
    [api |-> "download_file", processing_id |-> processing_id, status |-> "", ok |-> ok]

UploadFile(processing_id, ok) ==
    [api |-> "upload_file", processing_id |-> processing_id, status |-> "", ok |-> ok]

Publish(processing_id, stage, ok) ==
    [api |-> "publish", processing_id |-> processing_id, status |-> stage, ok |-> ok]

\* the two files of lines 79-80 of the call on record i
TempFiles(i) == {[record |-> i, suffix |-> ".kicad_sch"], [record |-> i, suffix |-> ".json"]}

AfterRecordReraises(how) == IF how = "raised" THEN "fatal" ELSE "loop"

\* lines 28-33: the loop goes on whether process_schematic_message returned or raised
AfterRecord(how) == "loop"

AfterUploadIgnoresFailure(ok) == "cleanup"

\* lines 104-123: an upload that raises leaves the try block
AfterUpload(ok) == IF ok THEN "cleanup" ELSE "except"

AfterPublishRaises(ok) == IF ok THEN "ended" ELSE "except"

\* lines 230-232: trigger_next_stage swallows the error of the publish
AfterPublish(ok) == "ended"

InitProcessor ==
    /\ ParserIdle
    /\ CursorIdle
    /\ DownloadIdle
    /\ \E k \in 1..MaxRecords : \E records \in [1..k -> SqsRecords] :
           event = [Records |-> records]
    /\ environ \in [buckets : BOOLEAN, stage2_topic : BOOLEAN]
    /\ lpc = "loop"
    /\ record_index = 0
    /\ calls = <<>>
    /\ tmp_files = {}
    /\ stage1_result = None
    /\ response = None

\* what the processor leaves alone
UnchangedByLambda == UNCHANGED <<parservars, cursorvars, downloadvars, event, environ>>

\* lines 27-29: the loop takes the next record
TakeRecord ==
    /\ lpc = "loop"
    /\ record_index < Len(event.Records)
    /\ record_index' = record_index + 1
    /\ lpc' = "message"
    /\ UNCHANGED <<calls, tmp_files, stage1_result, response>>
    /\ UnchangedByLambda

\* lines 51-64: a body that cannot be read raises before the try block
ReadMessage ==
    /\ lpc = "message"
    /\ lpc' = IF Record.readable THEN "processing" ELSE "raised"
    /\ UNCHANGED <<record_index, calls, tmp_files, stage1_result, response>>
    /\ UnchangedByLambda

\* line 69; update_processing_status swallows the error of the update
UpdateProcessing ==
    /\ lpc = "processing"
    /\ \E ok \in BOOLEAN :
           calls' = Append(calls, UpdateItem(ProcessingId(record_index), "stage1_processing", ok))
    /\ lpc' = "download"
    /\ UNCHANGED <<record_index, tmp_files, stage1_result, response>>
    /\ UnchangedByLambda

\* lines 73-87: the bucket names are read, the two temporary files created
\* and the object downloaded
DownloadObject ==
    /\ lpc = "download"
    /\ IF ~environ.buckets
       THEN lpc' = "except" /\ UNCHANGED <<calls, tmp_files>>
       ELSE /\ tmp_files' = tmp_files \cup TempFiles(record_index)
            /\ \E ok \in BOOLEAN :
                /\ ok => Record.object # None
                /\ calls' = Append(calls, DownloadFile(ProcessingId(record_index), ok))
                /\ lpc' = IF ok THEN "parse" ELSE "except"
    /\ UNCHANGED <<record_index, stage1_result, response>>
    /\ UnchangedByLambda

\* lines 91-97
ParseDownloaded ==
    /\ lpc = "parse"
    /\ LET parsed == ParseSchematicWithPaths(Record.object.text)
       IN  IF parsed.raised
           THEN lpc' = "except" /\ UNCHANGED stage1_result
           ELSE lpc' = "upload" /\ stage1_result' = parsed
    /\ UNCHANGED <<record_index, calls, tmp_files, response>>
    /\ UnchangedByLambda

\* lines 100-119
UploadResult ==
    /\ lpc = "upload"
    /\ \E ok \in BOOLEAN :
        /\ calls' = Append(calls, UploadFile(ProcessingId(record_index), ok))
        /\ lpc' = AfterUpload(ok)
    /\ UNCHANGED <<record_index, tmp_files, stage1_result, response>>
    /\ UnchangedByLambda

\* lines 122-123
CleanUp ==
    /\ lpc = "cleanup"
    /\ tmp_files' = tmp_files \ TempFiles(record_index)
    /\ lpc' = "complete"
    /\ UNCHANGED <<record_index, calls, stage1_result, response>>
    /\ UnchangedByLambda

\* lines 128-134
UpdateComplete ==
    /\ lpc = "complete"
    /\ \E ok \in BOOLEAN :
           calls' = Append(calls, UpdateItem(ProcessingId(record_index), "stage1_complete", ok))
    /\ lpc' = "trigger"
    /\ UNCHANGED <<record_index, tmp_files, stage1_result, response>>
    /\ UnchangedByLambda

\* line 137, trigger_next_stage: nothing is published when no topic is configured
TriggerNextStage ==
    /\ lpc = "trigger"
    /\ IF ~environ.stage2_topic
       THEN lpc' = "ended" /\ UNCHANGED calls
       ELSE \E ok \in BOOLEAN :
                /\ calls' = Append(calls, Publish(ProcessingId(record_index), "stage2", ok))
                /\ lpc' = AfterPublish(ok)
    /\ UNCHANGED <<record_index, tmp_files, stage1_result, response>>
    /\ UnchangedByLambda

\* lines 141-148: the status is set to failed and the exception raised again
HandleException ==
    /\ lpc = "except"
    /\ \E ok \in BOOLEAN :
           calls' = Append(calls, UpdateItem(ProcessingId(record_index), "stage1_failed", ok))
    /\ lpc' = "raised"
    /\ UNCHANGED <<record_index, tmp_files, stage1_result, response>>
    /\ UnchangedByLambda

\* lines 29-33: process_schematic_message has returned or raised
EndRecord ==
    /\ lpc \in {"ended", "raised"}
    /\ lpc' = AfterRecord(lpc)
    /\ stage1_result' = None
    /\ UNCHANGED <<record_index, calls, tmp_files, response>>
    /\ UnchangedByLambda

\* lines 35-38
ReturnComplete ==
    /\ lpc = "loop"
    /\ record_index = Len(event.Records)
    /\ response' = [statusCode |-> 200, body |-> "\"Processing complete\""]
    /\ lpc' = "returned"
    /\ UNCHANGED <<record_index, calls, tmp_files, stage1_result>>
    /\ UnchangedByLambda

NextProcessor ==
    \/ TakeRecord
    \/ ReadMessage
    \/ UpdateProcessing
    \/ DownloadObject
    \/ ParseDownloaded
    \/ UploadResult
    \/ CleanUp
    \/ UpdateComplete
    \/ TriggerNextStage
    \/ HandleException
    \/ EndRecord
    \/ ReturnComplete

SpecProcessor == InitProcessor /\ [][NextProcessor]_vars

(***************************************************************************)
(* The upload handler                                                      *)
(* (src/infra/lambda-functions/upload-handler/lambda_function.py).         *)
(* One invocation of lambda_handler on an API Gateway event.  The event    *)
(* is its method and its body, the body by whether it can be decoded and   *)
(* by the length of the decoded content; environ is which of the three     *)
(* environment variables are set.  GET requests (handle_status_request)    *)
(* are not modelled.  calls is the log of the calls made to S3, DynamoDB   *)
(* and SNS, each of which may fail.                                        *)
(***************************************************************************)
\* line 113: max_size = 10 * 1024 * 1024
max_size == 10 * 1024 * 1024

\* lengths of the decoded content on both sides of max_size
Sizes == {0, max_size - 1, max_size, max_size + 1}

Methods == {"POST", "OPTIONS", "PUT"}

\* line 97: processing_id = str(uuid.uuid4())
processing_id == "uuid4"

\* lines 130-141 and 151-162
PutObject(id, ok) ==
    [api |-> "put_object", processing_id |-> id, status |-> "", ok |-> ok]

PutItem(id, status, ok) ==
    [api |-> "put_item", processing_id |-> id, status |-> status, ok |-> ok]

\* cors_response: the status code and the keys of the JSON body
cors_response(status_code, body) == [statusCode |-> status_code, body |-> body]

\* lines 206-214, of the body the keys the callers read
Uploaded ==
    [processing_id |-> processing_id,
     message |-> "Schematic uploaded successfully and processing started",
     status |-> "uploaded"]

InitUpload ==
    /\ ParserIdle
    /\ CursorIdle
    /\ DownloadIdle
    /\ event \in [httpMethod : Methods, body : [decodes : BOOLEAN, length : Sizes]]
    /\ environ \in [DOCUMENT_BUCKET : BOOLEAN, DYNAMODB_TABLE : BOOLEAN,
                    DOCUMENT_PROCESSING_TOPIC_ARN : BOOLEAN]
    /\ lpc = "handler"
    /\ record_index = 0
    /\ calls = <<>>
    /\ tmp_files = {}
    /\ stage1_result = None
    /\ response = None

UnchangedByUpload ==
    UNCHANGED <<parservars, cursorvars, downloadvars, event, environ,
                record_index, tmp_files, stage1_result>>

\* lambda_handler, lines 52-68
HandleMethod ==
    /\ lpc = "handler"
    /\ CASE event.httpMethod = "OPTIONS" ->
                /\ response' = cors_response(200, [message |-> "CORS preflight"])
                /\ lpc' = "responded"
         [] event.httpMethod = "POST" ->
                /\ lpc' = "decode"
                /\ UNCHANGED response
         [] OTHER ->
                /\ response' = cors_response(405, [error |-> "Method not allowed"])
                /\ lpc' = "responded"
    /\ UNCHANGED calls
    /\ UnchangedByUpload

\* lines 100-118: the body is decoded and its size validated
DecodeBody ==
    /\ lpc = "decode"
    /\ IF ~event.body.decodes
       THEN lpc' = "error" /\ UNCHANGED response
       ELSE IF event.body.length > max_size
       THEN /\ response' = cors_response(413, [error |-> "File too large. Maximum size is 10MB."])
            /\ lpc' = "responded"
       ELSE lpc' = "put_object" /\ UNCHANGED response
    /\ UNCHANGED calls
    /\ UnchangedByUpload

\* lines 125-141
UploadToS3 ==
    /\ lpc = "put_object"
    /\ IF ~environ.DOCUMENT_BUCKET
       THEN lpc' = "error" /\ UNCHANGED calls
       ELSE \E ok \in BOOLEAN :
                /\ calls' = Append(calls, PutObject(processing_id, ok))
                /\ lpc' = IF ok THEN "put_item" ELSE "error"
    /\ UNCHANGED response
    /\ UnchangedByUpload

\* lines 146-162
RecordInDynamoDB ==
    /\ lpc = "put_item"
    /\ IF ~environ.DYNAMODB_TABLE
       THEN lpc' = "error" /\ UNCHANGED calls
       ELSE \E ok \in BOOLEAN :
                /\ calls' = Append(calls, PutItem(processing_id, "uploaded", ok))
                /\ lpc' = IF ok THEN "publish" ELSE "error"
    /\ UNCHANGED response
    /\ UnchangedByUpload

\* lines 167-204: the message is published when the topic is configured
TriggerProcessing ==
    /\ lpc = "publish"
    /\ IF environ.DOCUMENT_PROCESSING_TOPIC_ARN
       THEN \E ok \in BOOLEAN :
                /\ calls' = Append(calls, Publish(processing_id, "stage1", ok))
                /\ lpc' = IF ok THEN "respond" ELSE "error"
       ELSE lpc' = "respond" /\ UNCHANGED calls
    /\ UNCHANGED response
    /\ UnchangedByUpload

\* lines 206-214
RespondUploaded ==
    /\ lpc = "respond"
    /\ response' = cors_response(200, Uploaded)
    /\ lpc' = "responded"
    /\ UNCHANGED calls
    /\ UnchangedByUpload

\* lines 216-220 re-raise; lambda_handler, lines 70-79, answers 500
InternalServerError ==
    /\ lpc = "error"
    /\ response' = cors_response(500, [error |-> "Internal server error"])
    /\ lpc' = "responded"
    /\ UNCHANGED calls
    /\ UnchangedByUpload

NextUpload ==
    \/ HandleMethod
    \/ DecodeBody
    \/ UploadToS3
    \/ RecordInDynamoDB
    \/ TriggerProcessing
    \/ RespondUploaded
    \/ InternalServerError

SpecUpload == InitUpload /\ [][NextUpload]_vars

(***************************************************************************)
(* Reference notions the claims are stated with.  They are defined from    *)
(* the geometry alone, not from the operators that model _build_nets.      *)
(***************************************************************************)
Built == pc \in {"built", "done"}

\* the two points are coincident: their distance is at most the tolerance
Coincident(p, q) == DistanceSq(p, q) <= tolerance * tolerance

Ends(w) == {w.start, w.end}

\* the least squared distance between an endpoint of w and an endpoint of v
EndGapSq(w, v) ==
    LET gaps == {DistanceSq(p, q) : p \in Ends(w), q \in Ends(v)}
    IN  CHOOSE g \in gaps : \A h \in gaps : g <= h

\* wires i and j of ws have a pair of coincident endpoints
Adjacent(ws, i, j) == \E p \in Ends(ws[i]), q \in Ends(ws[j]) : Coincident(p, q)

\* the wires linked to a wire of S by a chain of adjacent wires
RECURSIVE ReachFrom(_, _)
ReachFrom(ws, S) ==
    LET T == S \cup {j \in 1..Len(ws) : \E i \in S : Adjacent(ws, i, j)}
    IN  IF T = S THEN S ELSE ReachFrom(ws, T)

Linked(ws, i, j) == j \in ReachFrom(ws, {i})

\* the places in the nets map of the nets whose wire list holds wire i
NetsOfWire(self, i) == {n \in 1..Len(self.nets) : i \in Range(self.nets[n].v.wires)}

SameNet(self, i, j) == NetsOfWire(self, i) \cap NetsOfWire(self, j) # {}

\* the wire sets of the nets
NetPartition(self) == {Range(self.nets[n].v.wires) : n \in 1..Len(self.nets)}

\* the Reference value a symbol node carries ("" when it carries none)
RECURSIVE NodeReference(_, _)
NodeReference(children, i) ==
    IF i = 0 THEN ""
    ELSE IF children[i].tag = "property" /\ children[i].name = "Reference"
         THEN children[i].value
         ELSE NodeReference(children, i - 1)

RefOf(node) == NodeReference(node.children, Len(node.children))

\* the node holds an atom that is not a number where a coordinate is read
WireHasNonNumeric(node) ==
    \E i \in 1..Len(node.pts) : ~node.pts[i].x.num \/ ~node.pts[i].y.num

SymbolHasNonNumeric(node) ==
    \E i \in 1..Len(node.children) :
        /\ node.children[i].tag = "at"
        /\ ~node.children[i].x.num \/ ~node.children[i].y.num

(***************************************************************************)
(* C1.  After _build_nets two wires are in the same net if and only if     *)
(* they are linked by a chain of wires in which consecutive wires have a   *)
(* pair of endpoints within the tolerance; wires A and C that do not touch *)
(* but are both touched by B end up in the same net.                       *)
(***************************************************************************)
C1_NetsAreConnectedComponents ==
    Built =>
        \A i, j \in 1..Len(parser.wires) :
            SameNet(parser, i, j) <=> Linked(parser.wires, i, j)

C1_Witness ==
    /\ pc = "built"
    /\ \E a, b, c \in 1..Len(parser.wires) :
        /\ ~Adjacent(parser.wires, a, c)
        /\ Adjacent(parser.wires, a, b) /\ Adjacent(parser.wires, b, c)
        /\ SameNet(parser, a, c)
    /\ Len(parser.nets) >= 2

(***************************************************************************)
(* C2.  Every permutation of the order in which the wires are presented to *)
(* _build_nets yields the same partition of the wires into clusters.       *)
(***************************************************************************)
C2_OrderIndependent ==
    pc = "built" =>
        \A perm \in Permutations(1..Len(parser.wires)) :
            LET shuffled == [i \in 1..Len(parser.wires) |-> parser.wires[perm[i]]]
                rebuilt == BuildNetsOf([NewParser EXCEPT !.wires = shuffled])
            IN  {{perm[i] : i \in cluster} : cluster \in NetPartition(rebuilt)}
                    = NetPartition(parser)

\* the third wire joins the groups of the first two, which do not touch each other
C2_Witness ==
    /\ pc = "built"
    /\ Len(parser.wires) >= 3
    /\ ~Adjacent(parser.wires, 1, 2)
    /\ Adjacent(parser.wires, 3, 1) /\ Adjacent(parser.wires, 3, 2)
    /\ SameNet(parser, 1, 2)

(***************************************************************************)
(* C3.  After _build_nets on a freshly created parser every wire of the    *)
(* wire list appears in the wire list of exactly one net, once, also the   *)
(* wires of clusters that have no attached pin.                            *)
(***************************************************************************)
C3_EveryWireInExactlyOneNet ==
    Built =>
        \A i \in 1..Len(parser.wires) :
            /\ Cardinality(NetsOfWire(parser, i)) = 1
            /\ \A n \in NetsOfWire(parser, i) :
                   Cardinality({m \in 1..Len(parser.nets[n].v.wires) :
                                    parser.nets[n].v.wires[m] = i}) = 1

\* a net with a pin beside a net of wires that no pin is attached to
C3_Witness ==
    /\ pc = "built"
    /\ \E n, m \in 1..Len(parser.nets) :
        /\ parser.nets[n].v.pins = <<>> /\ parser.nets[n].v.wires # <<>>
        /\ parser.nets[m].v.pins # <<>>

(***************************************************************************)
(* C4.  After _build_nets every (component reference, pin number) pair     *)
(* appears in the pin list of at most one net, also when the pin lies      *)
(* within the tolerance of endpoints of two different clusters.            *)
(***************************************************************************)
C4_PinInAtMostOneNet ==
    Built =>
        \A n, m \in 1..Len(parser.nets) :
            n # m => Range(parser.nets[n].v.pins) \cap Range(parser.nets[m].v.pins) = {}

(***************************************************************************)
(* C5.  A cluster to which a label with non-empty text is attached is      *)
(* emitted under the text of the first such label in scan order, not under *)
(* the default name Net_<i>.                                               *)
(***************************************************************************)
C5_LabelNamesNet ==
    Built =>
        \A n \in 1..Len(parser.nets) :
            LET NonEmpty(label) == label.text # <<>>
                named == SelectSeq(parser.nets[n].v.labels, NonEmpty)
            IN  named # <<>> => parser.nets[n].k = named[1].text

(***************************************************************************)
(* C6.  End-to-end scenario: wires (0,0)-(10,0) and (10,0)-(10,10), a      *)
(* junction at (10,0), a label "VCC" at (0,0) and U1 with pin 1 at         *)
(* (10,10) give exactly one net, named "VCC", with both wires, the         *)
(* junction, the label and the pin (U1, 1).                                *)
(***************************************************************************)
ScenarioDoc ==
    [wires |-> <<W1, W2>>, junctions |-> <<J1>>, labels |-> <<LVcc>>,
     symbols |-> <<SymU1>>]

C6_ScenarioGivesOneVccNet ==
    (Built /\ doc = ScenarioDoc) =>
        /\ Len(parser.nets) = 1
        /\ parser.nets[1].k = VCC
        /\ parser.nets[1].v.name = VCC
        /\ Range(parser.nets[1].v.wires) = {1, 2}
        /\ parser.nets[1].v.junctions = <<[position |-> Point(5000, 0)]>>
        /\ parser.nets[1].v.labels = <<Label(VCC, Origin, 0, "label")>>
        /\ parser.nets[1].v.pins = << <<"U1", "1">> >>

C8_UnnamedSymbolDropped ==
    LET named == {RefOf(doc.symbols[i]) : i \in 1..Len(doc.symbols)} \ {""}
    IN  /\ Range(DictKeys(parser.components)) \subseteq named
        /\ \A c \in 1..Len(parser.components) :
               DictHas(parser.components[c].v.properties, "Reference")
        /\ pc = "failed" => \E i \in 1..Len(doc.symbols) : SymbolHasNonNumeric(doc.symbols[i])
        /\ \A n \in 1..Len(parser.nets) :
               \A pin \in Range(parser.nets[n].v.pins) : pin[1] \in named

\* an unnamed symbol whose pin lies on an endpoint of a wire of the only net
C8_Witness ==
    /\ pc = "built"
    /\ doc.symbols = <<SymNoRef>>
    /\ \E i \in 1..Len(parser.wires) : Origin \in Ends(parser.wires[i])
    /\ parser.components = <<>>
    /\ \E n \in 1..Len(parser.nets) : parser.nets[n].v.pins = <<>>

(***************************************************************************)
(* C9.  A wire node with a single point does not make the call fail; it    *)
(* becomes a zero-length wire, which is alone in its net unless another    *)
(* wire has an endpoint at the point of the zero-length wire.              *)
(***************************************************************************)
C9_OnePointWire ==
    /\ pc = "failed" => WireHasNonNumeric(doc.wires[Len(doc.wires)])
    /\ \A i \in 1..Len(parser.wires) :
        Len(doc.wires[i].pts) < 2 =>
            /\ parser.wires[i].start = parser.wires[i].end
            /\ Built =>
                (\A n \in NetsOfWire(parser, i) : parser.nets[n].v.wires = <<i>>)
                    <=> ~\E j \in 1..Len(parser.wires) :
                            /\ j # i
                            /\ \E q \in Ends(parser.wires[j]) :
                                   Coincident(parser.wires[i].start, q)

\* a one-point wire alone in its net, beside other wires
C9_Witness ==
    /\ pc = "built"
    /\ Len(parser.wires) >= 2
    /\ \E i \in 1..Len(parser.wires) :
        /\ Len(doc.wires[i].pts) = 1
        /\ \E n \in NetsOfWire(parser, i) : parser.nets[n].v.wires = <<i>>

(***************************************************************************)
(* C10.  No state is carried between parse_file calls: a call on an        *)
(* object that has already served calls returns the same document, apart   *)
(* from the timestamps, as a call on a fresh object with the same file.    *)
(***************************************************************************)
WithoutTimestamps(d) ==
    [d EXCEPT !.bedroq_meta = [parser_version |-> @.parser_version,
                               original_filename |-> @.original_filename]]

C10_SameAsFreshObject ==
    pc = "done" =>
        \A t \in Times :
            WithoutTimestamps(out) = WithoutTimestamps(ToDict(fresh, PathName(filename), t))

(***************************************************************************)
(* Reference notions for the claims on files given as their text           *)
(***************************************************************************)
\* the call has got past the parsing of the text (line 170)
Parsed == pc # "read"

\* the parsed value is a list whose first element is the atom kicad_sch
RootIsSchematic(v) == IsList(v) /\ v.list # <<>> /\ v.list[1] = Atom(KICAD_SCH)

JunctionHasNonNumeric(node) ==
    \E i \in 1..Len(node.at) : ~node.at[i].x.num \/ ~node.at[i].y.num

LabelHasNonNumeric(node) ==
    \E i \in 1..Len(node.at) :
        \/ ~node.at[i].x.num \/ ~node.at[i].y.num
        \/ node.at[i].rot # <<>> /\ ~node.at[i].rot[1].num

\* a node of the file holds a token that is not a number in a numeric slot
DocHasNonNumeric(d) ==
    \/ \E i \in 1..Len(d.wires) : WireHasNonNumeric(d.wires[i])
    \/ \E i \in 1..Len(d.junctions) : JunctionHasNonNumeric(d.junctions[i])
    \/ \E i \in 1..Len(d.labels) : LabelHasNonNumeric(d.labels[i])

(***************************************************************************)
(* C11.  There is no partial success: when the parsing of the text raises, *)
(* when the root is not kicad_sch or when a node holds a non-numeric token *)
(* in a numeric slot, the call fails; a failed call has returned no        *)
(* document and no output JSON is written.                                 *)
(***************************************************************************)
C11_NoPartialSuccess ==
    /\ (Parsed /\ (data.raised \/ ~RootIsSchematic(data.value) \/ DocHasNonNumeric(doc)))
           => pc = "failed"
    /\ pc = "failed" => (out = NoDoc /\ output_json = NoDoc)
    /\ output_json # NoDoc => (pc = "saved" /\ output_json = [json |-> out] /\ out # NoDoc)

\* a call that failed on a node after it had added a wire and a junction or label
C11_Witness ==
    /\ pc = "failed"
    /\ DocHasNonNumeric(doc)
    /\ parser.wires # <<>> \/ parser.junctions # <<>>
    /\ out = NoDoc
    /\ output_json = NoDoc

(***************************************************************************)
(* A reading of a text by the grammar alone, character by character: the   *)
(* depth of open lists, whether a closing parenthesis came with no list    *)
(* open, and where the reading stands (between tokens, in a bare token, in *)
(* a quoted string, after a backslash in a quoted string).                 *)
(***************************************************************************)
ScanStep(st, c) ==
    CASE st.mode = "escape" -> [st EXCEPT !.mode = "string"]
      [] st.mode = "string" ->
            [st EXCEPT !.mode = IF c = "\\" THEN "escape"
                                ELSE IF c = "\"" THEN "between" ELSE "string"]
      [] OTHER ->
            IF c \in Whitespace THEN [st EXCEPT !.mode = "between"]
            ELSE IF c = "(" THEN [st EXCEPT !.mode = "between", !.depth = @ + 1]
            ELSE IF c = ")"
                 THEN IF st.depth = 0 THEN [st EXCEPT !.mode = "between", !.extra = TRUE]
                      ELSE [st EXCEPT !.mode = "between", !.depth = @ - 1]
            ELSE IF c = "\"" /\ st.mode = "between" THEN [st EXCEPT !.mode = "string"]
            ELSE [st EXCEPT !.mode = "bare"]

RECURSIVE Scan(_, _, _)
Scan(txt, i, st) == IF i > Len(txt) THEN st ELSE Scan(txt, i + 1, ScanStep(st, txt[i]))

Scanned(txt) == Scan(txt, 1, [mode |-> "between", depth |-> 0, extra |-> FALSE])

\* the text ends inside a quoted string
Unterminated(txt) == Scanned(txt).mode \in {"string", "escape"}

\* the text ends inside a list
MissingClose(txt) == Scanned(txt).depth > 0

\* a closing parenthesis with no list open
ExtraClose(txt) == Scanned(txt).extra

Malformed(txt) == Unterminated(txt) \/ MissingClose(txt) \/ ExtraClose(txt)

(***************************************************************************)
(* C12.  Every malformed text (an unterminated quoted string, a missing or *)
(* an extra closing parenthesis, the end of the input inside a list) makes *)
(* the parsing fail with an error that carries the offset of the fault.    *)
(***************************************************************************)
C12_MalformedRaisesWithOffset ==
    (Parsed /\ Malformed(content)) => (data.raised /\ data.position # <<>>)

(***************************************************************************)
(* C13.  parse_file goes on only when the parsed value is a list whose     *)
(* first atom is kicad_sch; for an empty input, a top-level atom, an empty *)
(* list or a list with another first element it fails before any           *)
(* component, wire or net is built.                                        *)
(***************************************************************************)
C13_RootCheck ==
    /\ pc \in {"tree", "parse", "built", "done", "saved"} =>
           (~data.raised /\ RootIsSchematic(data.value))
    /\ (Parsed /\ ~data.raised) =>
           LET v == data.value
               rejected == \/ v = None
                           \/ IsAtom(v)
                           \/ IsList(v) /\ v.list = <<>>
                           \/ IsList(v) /\ v.list # <<>> /\ v.list[1] # Atom(KICAD_SCH)
           IN  rejected => (pc = "failed" /\ parser = NewParser /\ doc = EmptyDoc /\ out = NoDoc)

\* a list that holds a wire node under a root tag that is not kicad_sch
C13_Witness ==
    /\ pc = "failed"
    /\ ~data.raised
    /\ IsList(data.value)
    /\ Len(data.value.list) >= 2
    /\ IsAtom(data.value.list[1])
    /\ data.value.list[1] # Atom(KICAD_SCH)
    /\ parser = NewParser

(***************************************************************************)
(* C14.  A quoted atom with an escaped quote (a backslash followed by a    *)
(* double quote) does not end at the escaped quote: it ends at the first   *)
(* unescaped double quote, and the atom holds the quote character.         *)
(***************************************************************************)
\* the places (1-based) after the opening quote at place open where an
\* unescaped double quote stands
UnescapedQuotes(txt, open) ==
    {p \in (open + 1)..Len(txt) :
        txt[p] = "\"" /\ Scanned(SubSeq(txt, 1, p - 1)).mode = "string"}

C14_EscapedQuoteKept ==
    \A open \in {1, 2} :
        (/\ Parsed
         /\ Len(content) >= open
         /\ content[open] = "\""
         /\ open = 2 => content[1] = "(") =>
            LET closes == UnescapedQuotes(content, open)
                close == CHOOSE p \in closes : \A q \in closes : p <= q
                body == SubSeq(content, open + 1, close - 1)
            IN  IF closes = {} THEN data.raised
                ELSE IF open = 1
                     THEN data = Returned(Atom(body), close)
                     ELSE ~data.raised => data.value.list[1] = Atom(body)

\* a quoted atom that holds a quote character
C14_Witness ==
    /\ Parsed
    /\ content # <<>>
    /\ content[1] = "\""
    /\ ~data.raised
    /\ "\"" \in Range(data.value.atom)

(***************************************************************************)
(* C15.  For a string s of bare-token-safe characters (no whitespace, no   *)
(* parentheses), parsing "(" + s + ")" yields a list with exactly one      *)
(* element, the atom s.                                                    *)
(***************************************************************************)
\* the text is "(" + s + ")" for a string s without whitespace and parentheses
IsParenthesizedToken(txt) ==
    /\ Len(txt) >= 2
    /\ txt[1] = "(" /\ txt[Len(txt)] = ")"
    /\ \A i \in 2..(Len(txt) - 1) : txt[i] \notin (Whitespace \cup {"(", ")"})

TokenOf(txt) == SubSeq(txt, 2, Len(txt) - 1)

\* the claim as it stands
C15_AnyTokenRoundTrips ==
    (Parsed /\ IsParenthesizedToken(content)) =>
        data = Returned(List(<<Atom(TokenOf(content))>>), Len(content))

\* amended: s is not empty and does not begin with a double quote
C15_BareTokenRoundTrips ==
    (/\ Parsed
     /\ IsParenthesizedToken(content)
     /\ TokenOf(content) # <<>>
     /\ TokenOf(content)[1] # "\"") =>
        data = Returned(List(<<Atom(TokenOf(content))>>), Len(content))

\* a token that holds a double quote or a backslash after its first character
C15_Witness ==
    /\ Parsed
    /\ IsParenthesizedToken(content)
    /\ Len(TokenOf(content)) >= 2
    /\ TokenOf(content)[1] = "a"
    /\ TokenOf(content)[2] \in {"\"", "\\"}
    /\ data = Returned(List(<<Atom(TokenOf(content))>>), Len(content))

(***************************************************************************)
(* C16.  Serialization is stable: _to_dict called again on an unchanged    *)
(* parser state returns the same document except for the two timestamp     *)
(* fields, and _to_dict changes nothing in the model.                      *)
(***************************************************************************)
C16_StableSerialization ==
    [][(pc \in {"built", "done", "again"} /\ pc' \in {"done", "again"}) =>
          /\ parser' = parser
          /\ pc \in {"done", "again"} =>
                 WithoutTimestamps(out') = WithoutTimestamps(out)]_vars

\* a model with a net and a component serialized again, at a later time
C16_Witness ==
    /\ pc = "again"
    /\ parser.nets # <<>>
    /\ parser.components # <<>>
    /\ out.bedroq_meta.parsed_date_unix = 2
    /\ out.nets # <<>>

(***************************************************************************)
(* C17.  A wire node whose pts child lists more than two points becomes a  *)
(* wire from the first listed point to the last listed point.              *)
(***************************************************************************)
\* the point an (xy x y) of a node gives
NodePoint(xy) == Point(xy.x.v, xy.y.v)

C17_PolylineFirstToLast ==
    \A i \in 1..Len(parser.wires) :
        LET pts == doc.wires[i].pts
        IN  Len(pts) > 2 =>
                parser.wires[i] = Wire(NodePoint(pts[1]), NodePoint(pts[Len(pts)]))

(***************************************************************************)
(* C18.  A cluster with no attached non-empty label is named Net_<i>, i    *)
(* its zero-based position in the final order of the clusters (after all   *)
(* merges); n clusters and no labels give exactly the names Net_0 to       *)
(* Net_(n-1), all distinct.                                                *)
(***************************************************************************)
\* the clusters of the wire list: the classes of wires linked by chains of adjacent wires
Clusters(ws) == {ReachFrom(ws, {i}) : i \in 1..Len(ws)}

DefaultName(i) == NetPrefix \o Str(i)

C18_DefaultNames ==
    Built =>
        /\ \A n \in 1..Len(parser.nets) :
               LET net == parser.nets[n].v
               IN  (\A l \in 1..Len(net.labels) : net.labels[l].text = <<>>) =>
                       /\ parser.nets[n].k = DefaultName(n - 1)
                       /\ net.name = DefaultName(n - 1)
        /\ parser.labels = <<>> =>
               /\ Len(parser.nets) = Cardinality(Clusters(parser.wires))
               /\ {parser.nets[n].k : n \in 1..Len(parser.nets)}
                      = {DefaultName(i) : i \in 0..(Cardinality(Clusters(parser.wires)) - 1)}

\* two clusters after a wire has merged two earlier groups into a group that
\* goes last in the order, behind a group that was made after them
C18_Witness ==
    /\ pc = "built"
    /\ Len(parser.nets) = 2
    /\ Len(parser.nets[2].v.wires) = 3
    /\ parser.nets[2].v.wires[1] > parser.nets[2].v.wires[2]
    /\ parser.nets[1].v.wires[1] > parser.nets[2].v.wires[2]
    /\ parser.nets[2].k = DefaultName(1)

(***************************************************************************)
(* C19.  The net of a cluster lists exactly those junctions, labels and    *)
(* (component, pin) pairs whose point is within the tolerance of the start *)
(* or end point of at least one wire of the cluster, each of them once     *)
(* however many wires of the cluster it touches.                           *)
(***************************************************************************)
\* the wires of the net (places in self.wires) with an endpoint coincident with p
WiresTouched(self, net, p) ==
    {i \in Range(net.wires) : \E q \in Ends(self.wires[i]) : Coincident(p, q)}

\* the absolute position of a pin: component position plus relative position
AbsolutePin(component, pin) ==
    Point(component.position.x + pin.position.x, component.position.y + pin.position.y)

\* the (reference, pin number) pairs of the model whose pin touches the net
PinsTouching(self, net) ==
    LET places == UNION {{<<c, m>> : m \in 1..Len(self.components[c].v.pins)} :
                            c \in 1..Len(self.components)}
        Touching(cm) ==
            WiresTouched(self, net,
                AbsolutePin(self.components[cm[1]].v,
                            self.components[cm[1]].v.pins[cm[2]].v)) # {}
    IN  {<<self.components[cm[1]].k, self.components[cm[1]].v.pins[cm[2]].k>> :
            cm \in {cm \in places : Touching(cm)}}

C19_AttachmentExact ==
    Built =>
        \A n \in 1..Len(parser.nets) :
            LET net == parser.nets[n].v
                JunctionTouches(junction) == WiresTouched(parser, net, junction.position) # {}
                LabelTouches(label) == WiresTouched(parser, net, label.position) # {}
            IN  /\ net.junctions = SelectSeq(parser.junctions, JunctionTouches)
                /\ net.labels = SelectSeq(parser.labels, LabelTouches)
                /\ Range(net.pins) = PinsTouching(parser, net)
                /\ Cardinality(Range(net.pins)) = Len(net.pins)

\* a junction on the endpoints of two wires of a net, listed once, in a net
\* that lists a label and a pin as well
C19_Witness ==
    /\ pc = "built"
    /\ \E n \in 1..Len(parser.nets) :
        LET net == parser.nets[n].v
        IN  /\ Len(net.junctions) = 1
            /\ Cardinality(WiresTouched(parser, net, net.junctions[1].position)) >= 2
            /\ net.labels # <<>>
            /\ net.pins # <<>>

(***************************************************************************)
(* C20.  The rotation of a component is not applied to its pins: two       *)
(* documents that differ only in the rotation of components produce nets   *)
(* with identical pin membership.                                          *)
(***************************************************************************)
Rotations == {0, 90, 180, 270}

\* the symbol node with the rotation r in each of its (at x y ...) children
WithRotation(node, r) ==
    [node EXCEPT !.children =
        [i \in 1..Len(node.children) |->
            IF node.children[i].tag = "at"
            THEN [node.children[i] EXCEPT !.rot = <<Num(r)>>]
            ELSE node.children[i]]]

\* the document with every component rotated by r
Rotated(d, r) ==
    [d EXCEPT !.symbols = [i \in 1..Len(d.symbols) |-> WithRotation(d.symbols[i], r)]]

\* self after the nodes of one tag, from node i on, have been parsed
RECURSIVE AddNodes(_, _, _, _)
AddNodes(self, nodes, i, tag) ==
    IF i > Len(nodes) THEN self
    ELSE AddNodes(CASE tag = "wire" -> AddWire(self, nodes[i])
                    [] tag = "junction" -> AddJunction(self, nodes[i])
                    [] tag = "label" -> AddLabel(self, nodes[i])
                    [] OTHER -> AddSymbol(self, nodes[i]),
                  nodes, i + 1, tag)

\* a fresh parser object after parse_file has parsed the document and built its nets
ModelOf(d) ==
    BuildNetsOf(AddNodes(AddNodes(AddNodes(AddNodes(NewParser, d.wires, 1, "wire"),
                                           d.junctions, 1, "junction"),
                                  d.labels, 1, "label"),
                         d.symbols, 1, "symbol"))

\* the pins of each net, by net name
PinMembership(self) ==
    {<<self.nets[n].k, Range(self.nets[n].v.pins)>> : n \in 1..Len(self.nets)}

C20_RotationNotApplied ==
    pc = "built" =>
        /\ ModelOf(doc) = parser
        /\ \A r \in Rotations :
               PinMembership(ModelOf(Rotated(doc, r))) = PinMembership(parser)

\* a component with a rotation whose pin is listed in a net
C20_Witness ==
    /\ pc = "built"
    /\ \E c \in 1..Len(parser.components) :
        /\ parser.components[c].v.rotation = 90
        /\ \E n \in 1..Len(parser.nets) :
               \E pin \in Range(parser.nets[n].v.pins) : pin[1] = parser.components[c].k
    /\ \E r \in Rotations : ModelOf(Rotated(doc, r)).components # parser.components

(***************************************************************************)
(* C21.  Every wire node of the document gives exactly one record of the   *)
(* wire list, in document order; a wire node with fewer than two points    *)
(* gives a zero-length wire at the origin and is not dropped.              *)
(***************************************************************************)
C21_OneRecordPerWireNode ==
    /\ pc # "failed" => Len(parser.wires) = Len(doc.wires)
    /\ pc = "failed" => Len(parser.wires) = Len(doc.wires) - 1
    /\ \A i \in 1..Len(parser.wires) :
        IF Len(doc.wires[i].pts) < 2
        THEN parser.wires[i] = [start |-> Origin, end |-> Origin]
        ELSE /\ parser.wires[i].start = NodePoint(doc.wires[i].pts[1])
             /\ \E k \in 2..Len(doc.wires[i].pts) :
                    parser.wires[i].end = NodePoint(doc.wires[i].pts[k])

\* a document with a one-point wire node between two other wire nodes
C21_Witness ==
    /\ pc = "built"
    /\ Len(doc.wires) >= 3
    /\ \E i \in 2..(Len(doc.wires) - 1) :
        /\ Len(doc.wires[i].pts) < 2
        /\ parser.wires[i] = [start |-> Origin, end |-> Origin]
        /\ parser.wires[i - 1].start # parser.wires[i - 1].end
        /\ parser.wires[i + 1].start # parser.wires[i + 1].end

(***************************************************************************)
(* C22.  A text whose parentheses nest deeper than the limit makes the     *)
(* parsing fail with the error NestingTooDeep, raised from a depth         *)
(* counter, and no parsing ends by exhausting the call stack of the host.  *)
(***************************************************************************)
\* the most lists open at once in a reading of the text by the grammar alone
Nesting(txt) ==
    LET OpenAfter(k) ==
            Scan(SubSeq(txt, 1, k), 1, [mode |-> "between", depth |-> 0, extra |-> FALSE]).depth
    IN  CHOOSE d \in 0..Len(txt) :
            /\ \E k \in 0..Len(txt) : OpenAfter(k) = d
            /\ \A k \in 0..Len(txt) : OpenAfter(k) <= d

C22_NestingTooDeepRaised ==
    Parsed =>
        /\ ~(data.raised /\ data.type = "RecursionError")
        /\ Nesting(content) > RecursionLimit =>
               (data.raised /\ data.type = "NestingTooDeep")

(***************************************************************************)
(* C27.  When several top-level symbol nodes carry the same Reference, the *)
(* component map holds one entry for it, that of the symbol parsed last,   *)
(* and the nets list the pins of that symbol alone: the document gives the *)
(* components and the pins of the nets that it gives without the earlier   *)
(* symbols of each Reference.                                              *)
(***************************************************************************)
\* the symbol nodes from node i on that no later node repeats the Reference of
RECURSIVE LastOfEachReference(_, _)
LastOfEachReference(symbols, i) ==
    IF i > Len(symbols) THEN <<>>
    ELSE IF /\ RefOf(symbols[i]) # ""
            /\ \E j \in (i + 1)..Len(symbols) : RefOf(symbols[j]) = RefOf(symbols[i])
         THEN LastOfEachReference(symbols, i + 1)
         ELSE <<symbols[i]>> \o LastOfEachReference(symbols, i + 1)

\* the symbol nodes up to the first of each Reference
RECURSIVE FirstOfEachReference(_, _)
FirstOfEachReference(symbols, i) ==
    IF i < 1 THEN <<>>
    ELSE IF /\ RefOf(symbols[i]) # ""
            /\ \E j \in 1..(i - 1) : RefOf(symbols[j]) = RefOf(symbols[i])
         THEN FirstOfEachReference(symbols, i - 1)
         ELSE Append(FirstOfEachReference(symbols, i - 1), symbols[i])

C27_LastSymbolOfReferenceWins ==
    pc = "built" =>
        LET last == ModelOf([doc EXCEPT !.symbols = LastOfEachReference(@, 1)])
        IN  /\ \A c, e \in 1..Len(parser.components) :
                   parser.components[c].k = parser.components[e].k => c = e
            /\ Range(parser.components) = Range(last.components)
            /\ PinMembership(parser) = PinMembership(last)

\* two symbols of one Reference: the pin of the first lies on a wire, the pin of the last on none
C27_Witness ==
    /\ pc = "built"
    /\ Len(doc.symbols) = 2
    /\ RefOf(doc.symbols[1]) = RefOf(doc.symbols[2])
    /\ RefOf(doc.symbols[1]) # ""
    /\ parser.nets # <<>>
    /\ \A n \in 1..Len(parser.nets) : parser.nets[n].v.pins = <<>>
    /\ LET first == ModelOf([doc EXCEPT !.symbols = FirstOfEachReference(@, Len(@))])
       IN  \E n \in 1..Len(first.nets) : first.nets[n].v.pins # <<>>

(***************************************************************************)
(* C28.  On every text parse() ends, by returning a value or by raising an *)
(* error; the cursor never goes back, every iteration of the loops of      *)
(* skip_whitespace, parse_string and parse_bare_atom moves it forward, and *)
(* every element a list takes has consumed at least one character.         *)
(***************************************************************************)
\* a loop of skip_whitespace, parse_string or parse_bare_atom goes round once
LoopIteration == frames' = frames /\ pc' = pc

\* a call of parse_list under way takes one more element
ElementTaken ==
    \E k \in 1..Len(frames') :
        /\ k < Len(frames)
        /\ frames[k].fn = "parse_list"
        /\ frames'[k].fn = "parse_list"
        /\ Len(frames'[k].result) = Len(frames[k].result) + 1

\* where the text of the element that the innermost call returns begins, at the latest
ElementBegin ==
    CASE Top.fn = "parse_string" -> Top.start - 1
      [] Top.fn = "parse_bare_atom" -> Top.start
      [] OTHER -> cursor

C28_ParseTerminates ==
    /\ <>(pc \in {"returned", "raised"})
    /\ [][/\ cursor' >= cursor
          /\ LoopIteration => cursor' > cursor
          /\ ElementTaken => cursor' > ElementBegin]_vars

\* parse() has returned a list that holds a quoted string with an escape and a bare token
C28_Witness ==
    /\ pc = "returned"
    /\ IsList(data.value)
    /\ \E i, j \in 1..Len(data.value.list) :
        /\ IsAtom(data.value.list[i])
        /\ IsAtom(data.value.list[j])
        /\ i # j
    /\ \E k \in 1..Len(content) : content[k] = "\\"
    /\ \E k \in 1..Len(content) : content[k] = "\""
    /\ cursor = Len(content)

\* the steps of parse() end as the method computed in one go does
CursorAgreesWithParse ==
    pc \in {"returned", "raised"} => data = SExprParse(content)

(***************************************************************************)
(* C23.  With max_workers > 1 no download overwrites a file: no path is    *)
(* opened for writing by two downloads, nor by one download when it held a *)
(* file before, and the downloads that succeeded ended at paths that       *)
(* differ from one another.                                                *)
(***************************************************************************)
C23_NeverOverwrites ==
    max_workers > 1 =>
        /\ \A p \in DOMAIN out_dir : Len(out_dir[p].opened) <= 1
        /\ \A i, j \in 1..Len(futures) :
               (/\ i # j
                /\ futures[i].pc = "done" /\ futures[i].ok
                /\ futures[j].pc = "done" /\ futures[j].ok)
                   => futures[i].path # futures[j].path

\* the same when the downloads run one after the other
SerialNeverOverwrites ==
    max_workers <= 1 =>
        /\ \A p \in DOMAIN out_dir : Len(out_dir[p].opened) <= 1
        /\ \A i, j \in 1..Len(futures) :
               (/\ i # j
                /\ futures[i].pc = "done" /\ futures[i].ok
                /\ futures[j].pc = "done" /\ futures[j].ok)
                   => futures[i].path # futures[j].path

(***************************************************************************)
(* C24.  lambda_handler of the schematic processor attempts every record   *)
(* of the batch once, in order, whether process_schematic_message returns  *)
(* or raises, and then returns status code 200.                            *)
(***************************************************************************)
C24_EveryRecordAttempted ==
    [][/\ record_index' \in {record_index, record_index + 1}
       /\ record_index' = record_index + 1 => lpc = "loop" /\ lpc' = "message"
       /\ lpc \in {"ended", "raised"} => lpc' = "loop"
       /\ lpc' = "returned" =>
              /\ record_index' = Len(event'.Records)
              /\ response'.statusCode = 200]_vars

\* the handler has returned after a first record that raised and a second that was processed
C24_Witness ==
    /\ lpc = "returned"
    /\ Len(event.Records) = 2
    /\ \E k \in 1..Len(calls) : calls[k] = UpdateItem(ProcessingId(1), "stage1_failed", TRUE)
    /\ \E k \in 1..Len(calls) : calls[k] = UpdateItem(ProcessingId(2), "stage1_complete", TRUE)

(***************************************************************************)
(* C25.  The stage-2 message of a job is published only after its output   *)
(* was uploaded and its stage1_complete update issued; a publish that      *)
(* fails is followed by no stage1_failed update of the job and does not    *)
(* make process_schematic_message raise.                                   *)
(***************************************************************************)
C25_Stage2AfterStage1 ==
    \A k \in 1..Len(calls) :
        calls[k].api = "publish" =>
            LET id == calls[k].processing_id
            IN  /\ \E u, c \in 1..(k - 1) :
                    /\ u < c
                    /\ calls[u] = UploadFile(id, TRUE)
                    /\ calls[c].api = "update_item"
                    /\ calls[c].processing_id = id
                    /\ calls[c].status = "stage1_complete"
                /\ \A j \in (k + 1)..Len(calls) :
                       ~(/\ calls[j].api = "update_item"
                         /\ calls[j].processing_id = id
                         /\ calls[j].status = "stage1_failed")
                /\ id = ProcessingId(record_index) => lpc \notin {"except", "raised", "fatal"}

\* the publish of the first job failed and the handler went on to the second and returned
C25_Witness ==
    /\ lpc = "returned"
    /\ Len(event.Records) = 2
    /\ \E k \in 1..Len(calls) : calls[k] = Publish(ProcessingId(1), "stage2", FALSE)
    /\ \E k \in 1..Len(calls) : calls[k].processing_id = ProcessingId(2)

(***************************************************************************)
(* C26.  For a message that can be read the status updates issued are      *)
(* stage1_processing and then exactly one of stage1_complete and           *)
(* stage1_failed: stage1_complete after the upload of the output           *)
(* succeeded, stage1_failed when the download, the parse or the upload     *)
(* failed; stage1_failed never follows stage1_complete.                    *)
(***************************************************************************)
\* the status updates issued for a job, in order
StatusesOf(id) ==
    LET IsUpdate(call) == call.api = "update_item" /\ call.processing_id = id
        updates == SelectSeq(calls, IsUpdate)
    IN  [k \in 1..Len(updates) |-> updates[k].status]

\* process_schematic_message has ended on record i
Processed(i) == i < record_index \/ (i = record_index /\ lpc \in {"ended", "raised", "loop", "returned"})

\* the upload of the output of the job succeeded before call k
UploadedBefore(id, k) == \E u \in 1..(k - 1) : calls[u] = UploadFile(id, TRUE)

C26_StatusOrder ==
    \A i \in 1..record_index :
        event.Records[i].readable =>
            LET statuses == StatusesOf(ProcessingId(i))
            IN  /\ statuses \in {<<>>, <<"stage1_processing">>,
                                 <<"stage1_processing", "stage1_complete">>,
                                 <<"stage1_processing", "stage1_failed">>}
                /\ \A k \in 1..Len(calls) :
                       (/\ calls[k].api = "update_item"
                        /\ calls[k].processing_id = ProcessingId(i)
                        /\ calls[k].status = "stage1_complete")
                           => UploadedBefore(ProcessingId(i), k)
                /\ Processed(i) =>
                       /\ Len(statuses) = 2
                       /\ statuses[2] = "stage1_failed"
                              <=> ~UploadedBefore(ProcessingId(i), Len(calls) + 1)

\* a batch of a job that failed in the parse and a job that was completed
C26_Witness ==
    /\ lpc = "returned"
    /\ Len(event.Records) = 2
    /\ \E k \in 1..Len(calls) : calls[k] = DownloadFile(ProcessingId(1), TRUE)
    /\ StatusesOf(ProcessingId(1)) = <<"stage1_processing", "stage1_failed">>
    /\ StatusesOf(ProcessingId(2)) = <<"stage1_processing", "stage1_complete">>

(***************************************************************************)
(* C29.  When process_schematic_message ends, by returning or by raising,  *)
(* the two temporary files it created are deleted.                         *)
(***************************************************************************)
C29_TempFilesDeleted ==
    lpc \in {"ended", "raised"} => tmp_files \cap TempFiles(record_index) = {}

\* the part of C29 that holds: the files are deleted when the function returns
TempFilesDeletedOnReturn ==
    lpc = "ended" => tmp_files \cap TempFiles(record_index) = {}

(***************************************************************************)
(* C30.  When handle_file_upload answers 200 with 'Schematic uploaded      *)
(* successfully and processing started', the file was stored in S3, then   *)
(* the job recorded with status 'uploaded', then a stage1 message of the   *)
(* processing_id published; a file of more than 10 MB is answered with     *)
(* 413 with nothing stored, recorded or published.                         *)
(***************************************************************************)
\* the answer of handle_file_upload is the one of lines 206-214
AnsweredUploaded ==
    /\ lpc = "responded"
    /\ response.statusCode = 200
    /\ "message" \in DOMAIN response.body
    /\ response.body.message = "Schematic uploaded successfully and processing started"

\* the request is an upload of a file larger than 10 MB
TooLarge ==
    /\ event.httpMethod = "POST"
    /\ event.body.decodes
    /\ event.body.length > 10485760

C30_UploadedMeansPublished ==
    /\ AnsweredUploaded =>
           calls = << PutObject(response.body.processing_id, TRUE),
                      PutItem(response.body.processing_id, "uploaded", TRUE),
                      Publish(response.body.processing_id, "stage1", TRUE) >>
    /\ TooLarge =>
           /\ calls = <<>>
           /\ lpc = "responded" => response.statusCode = 413

\* the part of C30 that holds: the three calls were made when the topic is
\* configured, and the 413 answer comes before any call
UploadedMeansPublishedWithTopic ==
    /\ (AnsweredUploaded /\ environ.DOCUMENT_PROCESSING_TOPIC_ARN) =>
           calls = << PutObject(response.body.processing_id, TRUE),
                      PutItem(response.body.processing_id, "uploaded", TRUE),
                      Publish(response.body.processing_id, "stage1", TRUE) >>
    /\ TooLarge =>
           /\ calls = <<>>
           /\ lpc = "responded" => response.statusCode = 413
    /\ AnsweredUploaded => event.body.length <= 10485760

====
